---- MODULE Spec2Model ----
(***************************************************************************)
(* Model of the essay record store (backend/crud.py, backend/database.py)  *)
(* of the writing agent: the two SQLite tables essays and kaoyan_records,  *)
(* the JSON text the analysis payload is stored as, the Kaoyan score       *)
(* normaliser that runs inside create_kaoyan_record, and the read          *)
(* operations.                                                             *)
(*                                                                         *)
(* Text (a Python str, a SQLite TEXT value) is a sequence of characters.   *)
(* A character is a TLA+ string: the JSON structural characters, digits,   *)
(* QUOTE (the double quote), BSLASH (the backslash), NL (a line feed, a    *)
(* control character), U4E2D (a non-ASCII character), UD83D (a lone        *)
(* surrogate, which a Python str can hold and UTF-8 cannot encode), and    *)
(* runs of plain ASCII letters kept as one unit ("total", "null", ...),    *)
(* which json.dumps and json.loads copy unchanged.                         *)
(***************************************************************************)
EXTENDS Integers, Sequences, FiniteSets, TLC

VARIABLES
    essays,           \* table essays: rowid -> row
    kaoyan_records,   \* table kaoyan_records: rowid -> row
    sqlite_sequence,  \* AUTOINCREMENT bookkeeping: table name -> largest rowid ever used
    ret,              \* the last call and what it returned
    calls,            \* history: per table, the create calls so far (returned id and arguments)
    softdel,          \* history: per table, the ids of the stored rows a soft delete was called on
    purged,           \* history: per table, the ids of the rows removed by a hard delete
    arg               \* the analysis payload under test (payload specification only)

vars == <<essays, kaoyan_records, sqlite_sequence, ret, calls, softdel, purged, arg>>

-----------------------------------------------------------------------------
(* Bounds of the model.                                                    *)

\* Create calls over both tables in one behaviour.
MaxCreates == 2

-----------------------------------------------------------------------------
(* Python values as json.loads produces them.  Every value carries the     *)
(* same fields, so that values of different types compare.                 *)
(*   t    : "null" | "bool" | "int" | "float" | "str" | "list" | "dict"    *)
(*   n    : the number (bool: 0/1; float: the value in tenths)             *)
(*   s    : the characters of a str                                        *)
(*   keys : the keys of a dict, in insertion order                         *)
(*   kids : the elements of a list, or the values of a dict                *)

JNull == [t |-> "null", n |-> 0, s |-> <<>>, keys |-> <<>>, kids |-> <<>>]

JBool(b) == [t |-> "bool", n |-> IF b THEN 1 ELSE 0, s |-> <<>>, keys |-> <<>>, kids |-> <<>>]

JInt(i) == [t |-> "int", n |-> i, s |-> <<>>, keys |-> <<>>, kids |-> <<>>]

JFloat(tenths) == [t |-> "float", n |-> tenths, s |-> <<>>, keys |-> <<>>, kids |-> <<>>]

\* float('nan'), which json writes and accepts as the literal NaN
JNaN == [t |-> "float", n |-> 0, s |-> <<"nan">>, keys |-> <<>>, kids |-> <<>>]

JStr(chars) == [t |-> "str", n |-> 0, s |-> chars, keys |-> <<>>, kids |-> <<>>]

JList(elems) == [t |-> "list", n |-> 0, s |-> <<>>, keys |-> <<>>, kids |-> elems]

JDict(ks, vs) == [t |-> "dict", n |-> 0, s |-> <<>>, keys |-> ks, kids |-> vs]

\* dict.get(key, default)
DictGet(d, key, default) ==
    IF \E i \in 1..Len(d.keys) : d.keys[i] = key
    THEN d.kids[CHOOSE i \in 1..Len(d.keys) : d.keys[i] = key]
    ELSE default

\* d[key] = value: a key already present keeps its place and takes the new value.
DictPut(d, key, value) ==
    IF \E i \in 1..Len(d.keys) : d.keys[i] = key
    THEN [d EXCEPT !.kids[CHOOSE i \in 1..Len(d.keys) : d.keys[i] = key] = value]
    ELSE [d EXCEPT !.keys = Append(@, key), !.kids = Append(@, value)]

-----------------------------------------------------------------------------
(* json.dumps                                                              *)

Digits == <<"0", "1", "2", "3", "4", "5", "6", "7", "8", "9">>

DigitChars == {Digits[i] : i \in 1..10}

DigitValue(c) == (CHOOSE i \in 1..10 : Digits[i] = c) - 1

RECURSIVE NatToText(_)
NatToText(n) ==
    IF n < 10 THEN <<Digits[n + 1]>>
    ELSE NatToText(n \div 10) \o <<Digits[(n % 10) + 1]>>

\* int.__repr__
IntToText(i) == IF i < 0 THEN <<"-">> \o NatToText(-i) ELSE NatToText(i)

\* float.__repr__ of a value held in tenths: always with a fraction digit.
FloatToText(tenths) ==
    LET a == IF tenths < 0 THEN -tenths ELSE tenths
    IN  (IF tenths < 0 THEN <<"-">> ELSE <<>>)
        \o NatToText(a \div 10) \o <<".">> \o <<Digits[(a % 10) + 1]>>

NonAscii == {"U4E2D", "UD83D"}

\* The \uXXXX escape of a non-ASCII character.
UnicodeEscape(c) ==
    CASE c = "U4E2D" -> <<"BSLASH", "u", "4", "e", "2", "d">>
      [] c = "UD83D" -> <<"BSLASH", "u", "d", "8", "3", "d">>

\* Mutant: the double quote written without its backslash.
EscapeCharQuoteUnescaped(c, ensure_ascii) ==
    CASE c = "BSLASH" -> <<"BSLASH", "BSLASH">>
      [] c = "NL" -> <<"BSLASH", "n">>
      [] c \in NonAscii -> IF ensure_ascii THEN UnicodeEscape(c) ELSE <<c>>
      [] OTHER -> <<c>>

\* One character of a str as the encoder writes it.
EscapeChar(c, ensure_ascii) ==
    CASE c = "QUOTE" -> <<"BSLASH", "QUOTE">>
      [] c = "BSLASH" -> <<"BSLASH", "BSLASH">>
      [] c = "NL" -> <<"BSLASH", "n">>
      [] c \in NonAscii -> IF ensure_ascii THEN UnicodeEscape(c) ELSE <<c>>
      [] OTHER -> <<c>>

RECURSIVE EscapeChars(_, _)
EscapeChars(chars, ensure_ascii) ==
    IF chars = <<>> THEN <<>>
    ELSE EscapeChar(Head(chars), ensure_ascii) \o EscapeChars(Tail(chars), ensure_ascii)

\* encode_basestring / encode_basestring_ascii
EncodeString(chars, ensure_ascii) ==
    <<"QUOTE">> \o EscapeChars(chars, ensure_ascii) \o <<"QUOTE">>

RECURSIVE json_dumps(_, _)
RECURSIVE DumpItems(_, _, _)
\* The items of a list (v.keys empty) or dict from position i on, ", " between them.
DumpItems(v, i, ensure_ascii) ==
    IF i > Len(v.kids) THEN <<>>
    ELSE (IF i > 1 THEN <<",", " ">> ELSE <<>>)
         \o (IF v.t = "dict"
             THEN EncodeString(v.keys[i], ensure_ascii) \o <<":", " ">>
             ELSE <<>>)
         \o json_dumps(v.kids[i], ensure_ascii)
         \o DumpItems(v, i + 1, ensure_ascii)

json_dumps(v, ensure_ascii) ==
    CASE v.t = "null" -> <<"null">>
      [] v.t = "bool" -> IF v.n = 1 THEN <<"true">> ELSE <<"false">>
      [] v.t = "int" -> IntToText(v.n)
      [] v.t = "float" -> IF v.s = <<"nan">> THEN <<"NaN">> ELSE FloatToText(v.n)
      [] v.t = "str" -> EncodeString(v.s, ensure_ascii)
      [] v.t = "list" -> <<"[">> \o DumpItems(v, 1, ensure_ascii) \o <<"]">>
      [] v.t = "dict" -> <<"{">> \o DumpItems(v, 1, ensure_ascii) \o <<"}">>

-----------------------------------------------------------------------------
(* json.loads: the decoder, a recursive descent over the text.  A parse    *)
(* step returns [ok, val, pos]: whether it succeeded, the value, and the   *)
(* position after it.  A failure stands for json.JSONDecodeError.          *)

ParseFail == [ok |-> FALSE, val |-> JNull, pos |-> 0]

ParseOk(v, p) == [ok |-> TRUE, val |-> v, pos |-> p]

Whitespace == {" ", "NL", "TAB", "CR"}

RECURSIVE SkipWs(_, _)
SkipWs(s, i) ==
    IF i <= Len(s) /\ s[i] \in Whitespace THEN SkipWs(s, i + 1) ELSE i

\* py_scanstring, from the position after the opening quote (strict mode:
\* a raw control character inside a string is an error).
RECURSIVE ParseString(_, _, _)
ParseString(s, i, acc) ==
    IF i > Len(s) THEN ParseFail
    ELSE CASE s[i] = "QUOTE" -> ParseOk(JStr(acc), i + 1)
           [] s[i] = "BSLASH" ->
                IF i + 1 > Len(s) THEN ParseFail
                ELSE CASE s[i + 1] = "QUOTE" -> ParseString(s, i + 2, Append(acc, "QUOTE"))
                       [] s[i + 1] = "BSLASH" -> ParseString(s, i + 2, Append(acc, "BSLASH"))
                       [] s[i + 1] = "n" -> ParseString(s, i + 2, Append(acc, "NL"))
                       [] s[i + 1] = "u" ->
                            IF i + 5 <= Len(s) /\ SubSeq(s, i + 2, i + 5) = <<"4", "e", "2", "d">>
                            THEN ParseString(s, i + 6, Append(acc, "U4E2D"))
                            ELSE IF i + 5 <= Len(s)
                                    /\ SubSeq(s, i + 2, i + 5) = <<"d", "8", "3", "d">>
                            THEN ParseString(s, i + 6, Append(acc, "UD83D"))
                            ELSE ParseFail
                       [] OTHER -> ParseFail
           [] s[i] \in {"NL", "TAB", "CR"} -> ParseFail
           [] OTHER -> ParseString(s, i + 1, Append(acc, s[i]))

\* The end of the run of digits that starts at i.
RECURSIVE DigitRunEnd(_, _)
DigitRunEnd(s, i) ==
    IF i <= Len(s) /\ s[i] \in DigitChars THEN DigitRunEnd(s, i + 1) ELSE i

RECURSIVE TextToNat(_)
TextToNat(ds) ==
    IF ds = <<>> THEN 0
    ELSE 10 * TextToNat(SubSeq(ds, 1, Len(ds) - 1)) + DigitValue(ds[Len(ds)])

\* NUMBER_RE: -?(0|[1-9]\d*)(\.\d+)?  An integer without a fraction, a float
\* with one.  The model's floats are tenths: of a longer fraction the first
\* digit counts.  Exponents are outside the model's alphabet.
ParseNumber(s, i) ==
    LET neg == s[i] = "-"
        j == IF neg THEN i + 1 ELSE i
    IN  IF j > Len(s) \/ s[j] \notin DigitChars THEN ParseFail
        ELSE LET k == IF s[j] = "0" THEN j + 1 ELSE DigitRunEnd(s, j)
                 whole == TextToNat(SubSeq(s, j, k - 1))
                 frac == k + 1 <= Len(s) /\ s[k] = "." /\ s[k + 1] \in DigitChars
                 tenths == 10 * whole + DigitValue(s[k + 1])
             IN  IF frac
                 THEN ParseOk(JFloat(IF neg THEN -tenths ELSE tenths), DigitRunEnd(s, k + 1))
                 ELSE ParseOk(JInt(IF neg THEN -whole ELSE whole), k)

RECURSIVE ParseValue(_, _)
RECURSIVE ParseElems(_, _, _)
RECURSIVE ParseMembers(_, _, _)

\* JSONArray after a value is due at i: value, then "]" ends, "," continues.
ParseElems(s, i, acc) ==
    LET r == ParseValue(s, i)
        j == SkipWs(s, r.pos)
    IN  IF ~r.ok \/ j > Len(s) THEN ParseFail
        ELSE CASE s[j] = "]" -> ParseOk(JList(Append(acc, r.val)), j + 1)
               [] s[j] = "," -> ParseElems(s, SkipWs(s, j + 1), Append(acc, r.val))
               [] OTHER -> ParseFail

\* JSONObject after a key is due at i: "key" : value, then "}" ends, "," continues.
ParseMembers(s, i, d) ==
    IF i > Len(s) \/ s[i] # "QUOTE" THEN ParseFail
    ELSE LET k == ParseString(s, i + 1, <<>>)
             c == SkipWs(s, k.pos)
         IN  IF ~k.ok \/ c > Len(s) \/ s[c] # ":" THEN ParseFail
             ELSE LET r == ParseValue(s, SkipWs(s, c + 1))
                      j == SkipWs(s, r.pos)
                      d2 == DictPut(d, k.val.s, r.val)
                  IN  IF ~r.ok \/ j > Len(s) THEN ParseFail
                      ELSE CASE s[j] = "}" -> ParseOk(d2, j + 1)
                             [] s[j] = "," -> ParseMembers(s, SkipWs(s, j + 1), d2)
                             [] OTHER -> ParseFail

\* scan_once
ParseValue(s, i) ==
    IF i > Len(s) THEN ParseFail
    ELSE CASE s[i] = "QUOTE" -> ParseString(s, i + 1, <<>>)
           [] s[i] = "{" ->
                LET j == SkipWs(s, i + 1)
                IN  IF j <= Len(s) /\ s[j] = "}" THEN ParseOk(JDict(<<>>, <<>>), j + 1)
                    ELSE ParseMembers(s, j, JDict(<<>>, <<>>))
           [] s[i] = "[" ->
                LET j == SkipWs(s, i + 1)
                IN  IF j <= Len(s) /\ s[j] = "]" THEN ParseOk(JList(<<>>), j + 1)
                    ELSE ParseElems(s, j, <<>>)
           [] s[i] = "null" -> ParseOk(JNull, i + 1)
           [] s[i] = "true" -> ParseOk(JBool(TRUE), i + 1)
           [] s[i] = "false" -> ParseOk(JBool(FALSE), i + 1)
           [] s[i] = "NaN" -> ParseOk(JNaN, i + 1)
           [] s[i] = "-" \/ s[i] \in DigitChars -> ParseNumber(s, i)
           [] OTHER -> ParseFail

\* JSONDecoder.decode: one value, whitespace around it, nothing else.
\* [ok, val]; ok = FALSE stands for json.JSONDecodeError.
json_loads(s) ==
    LET r == ParseValue(s, SkipWs(s, 1))
    IN  IF r.ok /\ SkipWs(s, r.pos) = Len(s) + 1
        THEN [ok |-> TRUE, val |-> r.val]
        ELSE [ok |-> FALSE, val |-> JNull]

-----------------------------------------------------------------------------
(* Timestamps.  A clock reading is <<second, microsecond>>; the fields     *)
(* before the seconds (year .. minute) are zero-padded to a fixed width    *)
(* the same way the seconds are and are left out.                          *)

\* The clock readings datetime.utcnow() returns in the model: a whole
\* second, the same second with microseconds, and a later second that
\* needs both of its digits.
Times == {<<9, 0>>, <<9, 5>>, <<10, 0>>}

\* Chronological order of two clock readings.
TimeLess(a, b) == a[1] < b[1] \/ (a[1] = b[1] /\ a[2] < b[2])

RECURSIVE ZeroPad(_, _)
\* "%0*d": n in decimal, zero-padded to width w.
ZeroPad(n, w) ==
    IF w = 0 THEN <<>> ELSE ZeroPad(n \div 10, w - 1) \o <<Digits[(n % 10) + 1]>>

\* datetime.isoformat(): "SS" when the microsecond is 0, else "SS.ffffff".
isoformat(now) ==
    ZeroPad(now[1], 2) \o (IF now[2] = 0 THEN <<>> ELSE <<".">> \o ZeroPad(now[2], 6))

\* Code point of a character of a timestamp.
CharCode(c) ==
    CASE c = "-" -> 45
      [] c = "." -> 46
      [] c \in DigitChars -> 48 + DigitValue(c)
      [] c = ":" -> 58
      [] c = "T" -> 84

RECURSIVE TextLess(_, _)
\* SQLite's BINARY collation on TEXT: memcmp, a proper prefix sorts first.
TextLess(a, b) ==
    IF b = <<>> THEN FALSE
    ELSE IF a = <<>> THEN TRUE
    ELSE IF Head(a) = Head(b) THEN TextLess(Tail(a), Tail(b))
    ELSE CharCode(Head(a)) < CharCode(Head(b))

-----------------------------------------------------------------------------
(* The tables.  A table is a function from rowid to row.  A nullable REAL  *)
(* column holds <<>> (NULL) or <<v>> (v in tenths).                        *)

ACTIVE == "active"

DELETED == "deleted"

Max(a, b) == IF a > b THEN a ELSE b

\* The largest rowid in a table, 0 when it is empty.
MaxRowid(tbl) ==
    IF DOMAIN tbl = {} THEN 0 ELSE CHOOSE m \in DOMAIN tbl : \A k \in DOMAIN tbl : k <= m

\* Mutant: INTEGER PRIMARY KEY without AUTOINCREMENT, which reuses the
\* rowid of a deleted last row.
rowid_without_autoincrement(tbl, seq) == MaxRowid(tbl) + 1

\* INTEGER PRIMARY KEY AUTOINCREMENT: one more than the largest rowid the
\* table has ever held, which sqlite_sequence remembers across deletes.
autoincrement_rowid(tbl, seq) == Max(seq, MaxRowid(tbl)) + 1

\* tbl with one more row
InsertRow(tbl, row) ==
    [k \in DOMAIN tbl \cup {row.id} |-> IF k = row.id THEN row ELSE tbl[k]]

\* tbl without the row id
RemoveRow(tbl, id) == [k \in DOMAIN tbl \ {id} |-> tbl[k]]

\* SELECT * ... WHERE id = ?, fetchone(): <<row>>, or <<>> for None.
SelectById(tbl, id) == IF id \in DOMAIN tbl THEN <<tbl[id]>> ELSE <<>>

\* ORDER BY created_at DESC over the rows ids: every order SQLite may
\* return them in.  Rows with equal created_at come in an order the query
\* does not fix.
OrderByCreatedAtDesc(tbl, ids) ==
    LET n == Cardinality(ids)
        perms == {p \in [1..n -> ids] : \A i, j \in 1..n : i # j => p[i] # p[j]}
        sorted == {p \in perms :
                      \A i \in 1..n : \A j \in 1..n :
                          i < j => ~TextLess(tbl[p[i]].created_at, tbl[p[j]].created_at)}
    IN  {[i \in 1..n |-> tbl[p[i]]] : p \in sorted}

\* SELECT * ... WHERE status = ? ORDER BY created_at DESC, fetchall()
SelectActiveOrdered(tbl) ==
    OrderByCreatedAtDesc(tbl, {k \in DOMAIN tbl : tbl[k].status = ACTIVE})

\* Mutant: a soft delete of a row that is already deleted removes it.
UpdateStatusOrPurge(tbl, id) ==
    IF id \in DOMAIN tbl /\ tbl[id].status = DELETED
    THEN RemoveRow(tbl, id)
    ELSE [k \in DOMAIN tbl |-> IF k = id THEN [tbl[k] EXCEPT !.status = DELETED] ELSE tbl[k]]

\* Mutant: the soft delete toggles the status.
UpdateStatusToggle(tbl, id) ==
    [k \in DOMAIN tbl |->
        IF k = id
        THEN [tbl[k] EXCEPT !.status = IF @ = ACTIVE THEN DELETED ELSE ACTIVE]
        ELSE tbl[k]]

\* UPDATE ... SET status = 'deleted' WHERE id = ?
UpdateStatusDeleted(tbl, id) ==
    [k \in DOMAIN tbl |-> IF k = id THEN [tbl[k] EXCEPT !.status = DELETED] ELSE tbl[k]]

\* Mutant: the hard path updates the status too and removes nothing.
delete_statement_never_removes(tbl, id, soft_delete) == UpdateStatusDeleted(tbl, id)

\* Mutant: the statement has lost its WHERE clause and acts on every row.
delete_statement_without_where(tbl, id, soft_delete) ==
    IF soft_delete
    THEN [k \in DOMAIN tbl |-> [tbl[k] EXCEPT !.status = DELETED]]
    ELSE [k \in {} |-> tbl[k]]

\* The statement delete_essay / delete_kaoyan_record executes.
delete_statement(tbl, id, soft_delete) ==
    IF soft_delete THEN UpdateStatusDeleted(tbl, id) ELSE RemoveRow(tbl, id)

-----------------------------------------------------------------------------
(* The Kaoyan score normaliser inside create_kaoyan_record.                *)

\* float(str): optional whitespace and sign, digits with an optional
\* fraction, or "nan".  [ok, val]; ok = FALSE stands for ValueError.
FloatFromText(chars) ==
    LET a == SkipWs(chars, 1)
        signed == a <= Len(chars) /\ chars[a] \in {"-", "+"}
        b == IF signed THEN a + 1 ELSE a
        c == DigitRunEnd(chars, b)
        dot == c <= Len(chars) /\ chars[c] = "."
        d == IF dot THEN DigitRunEnd(chars, c + 1) ELSE c
        whole == TextToNat(SubSeq(chars, b, c - 1))
        tenths == 10 * whole + (IF dot /\ d > c + 1 THEN DigitValue(chars[c + 1]) ELSE 0)
        some == c > b \/ d > c + 1
    IN  IF b <= Len(chars) /\ chars[b] = "nan" /\ SkipWs(chars, b + 1) = Len(chars) + 1
        THEN [ok |-> TRUE, val |-> JNaN]
        ELSE IF some /\ SkipWs(chars, d) = Len(chars) + 1
        THEN [ok |-> TRUE,
              val |-> JFloat(IF signed /\ chars[a] = "-" THEN -tenths ELSE tenths)]
        ELSE [ok |-> FALSE, val |-> JNull]

\* float(x) of a Python value.  [ok, val]; ok = FALSE stands for the
\* ValueError or TypeError float() raises.
py_float(v) ==
    CASE v.t = "int" -> [ok |-> TRUE, val |-> JFloat(10 * v.n)]
      [] v.t = "bool" -> [ok |-> TRUE, val |-> JFloat(10 * v.n)]
      [] v.t = "float" -> [ok |-> TRUE, val |-> v]
      [] v.t = "str" -> FloatFromText(v.s)
      [] OTHER -> [ok |-> FALSE, val |-> JNull]

\* The four locals total_score, language_score, structure_score,
\* logic_score, each <<>> (None) or <<float>>.
ScoreLocals(total, language, structure, logic) ==
    [total_score |-> total, language_score |-> language,
     structure_score |-> structure, logic_score |-> logic]

AllNone == ScoreLocals(<<>>, <<>>, <<>>, <<>>)

\* float(x) if x is not None else None, for a conversion that succeeds
Converted(x) == IF x.t = "null" THEN <<>> ELSE <<py_float(x).val>>

\* Whether float(x) if x is not None else None raises
Raises(x) == x.t # "null" /\ ~py_float(x).ok

\* float(x) if x is not None else None, None when float(x) raises
ConvertedOrNone(x) == IF x.t = "null" \/ ~py_float(x).ok THEN <<>> ELSE <<py_float(x).val>>

\* Mutant: each conversion in a try block of its own, so that a failure
\* loses only its own column.
extract_scores_per_column(ai_analysis) ==
    LET empty == JDict(<<>>, <<>>)
        score == IF ai_analysis.t = "dict"
                 THEN DictGet(ai_analysis, <<"score">>, empty)
                 ELSE empty
        total == DictGet(score, <<"total">>, JNull)
        language == DictGet(score, <<"language_score">>, JNull)
        structure == DictGet(score, <<"structure_score">>, JNull)
        logic == DictGet(score, <<"logic_score">>, JNull)
        legacy == DictGet(score, <<"total_score">>, JNull)
    IN  IF score.t # "dict" THEN AllNone
        ELSE IF total.t # "null" \/ language.t # "null"
        THEN ScoreLocals(ConvertedOrNone(total), ConvertedOrNone(language),
                         ConvertedOrNone(structure), ConvertedOrNone(logic))
        ELSE ScoreLocals(ConvertedOrNone(legacy), <<>>, <<>>, <<>>)

\* Mutant: float(score[key]) without the None guards, so that a missing
\* key raises and all four locals stay None.
extract_scores_all_or_nothing(ai_analysis) ==
    LET empty == JDict(<<>>, <<>>)
        score == IF ai_analysis.t = "dict"
                 THEN DictGet(ai_analysis, <<"score">>, empty)
                 ELSE empty
        total == DictGet(score, <<"total">>, JNull)
        language == DictGet(score, <<"language_score">>, JNull)
        structure == DictGet(score, <<"structure_score">>, JNull)
        logic == DictGet(score, <<"logic_score">>, JNull)
        legacy == DictGet(score, <<"total_score">>, JNull)
    IN  IF score.t # "dict" THEN AllNone
        ELSE IF total.t # "null" \/ language.t # "null"
        THEN IF \E x \in {total, language, structure, logic} : ~py_float(x).ok
             THEN AllNone
             ELSE ScoreLocals(Converted(total), Converted(language),
                              Converted(structure), Converted(logic))
        ELSE IF legacy.t = "null" THEN AllNone
        ELSE IF Raises(legacy) THEN AllNone
        ELSE ScoreLocals(Converted(legacy), <<>>, <<>>, <<>>)

\* Mutant: the else branch left out, so that total_score is never read.
extract_scores_without_legacy(ai_analysis) ==
    LET empty == JDict(<<>>, <<>>)
        score == IF ai_analysis.t = "dict"
                 THEN DictGet(ai_analysis, <<"score">>, empty)
                 ELSE empty
        total == DictGet(score, <<"total">>, JNull)
        language == DictGet(score, <<"language_score">>, JNull)
        structure == DictGet(score, <<"structure_score">>, JNull)
        logic == DictGet(score, <<"logic_score">>, JNull)
    IN  IF score.t # "dict" THEN AllNone
        ELSE IF total.t # "null" \/ language.t # "null"
        THEN IF Raises(total) \/ Raises(language) \/ Raises(structure) \/ Raises(logic)
             THEN AllNone
             ELSE ScoreLocals(Converted(total), Converted(language),
                              Converted(structure), Converted(logic))
        ELSE AllNone

\* The try block of create_kaoyan_record.  An exception anywhere in it
\* (score is no mapping, a float() fails) leaves all four locals None.
extract_scores(ai_analysis) ==
    LET empty == JDict(<<>>, <<>>)
        score == IF ai_analysis.t = "dict"
                 THEN DictGet(ai_analysis, <<"score">>, empty)
                 ELSE empty
        total == DictGet(score, <<"total">>, JNull)
        language == DictGet(score, <<"language_score">>, JNull)
        structure == DictGet(score, <<"structure_score">>, JNull)
        logic == DictGet(score, <<"logic_score">>, JNull)
        legacy == DictGet(score, <<"total_score">>, JNull)
    IN  IF score.t # "dict" THEN AllNone
        ELSE IF total.t # "null" \/ language.t # "null"
        THEN IF Raises(total) \/ Raises(language) \/ Raises(structure) \/ Raises(logic)
             THEN AllNone
             ELSE ScoreLocals(Converted(total), Converted(language),
                              Converted(structure), Converted(logic))
        ELSE IF legacy.t = "null" THEN AllNone
        ELSE IF Raises(legacy) THEN AllNone
        ELSE ScoreLocals(Converted(legacy), <<>>, <<>>, <<>>)

\* Binding a Python float or None to a REAL column: None and NaN are stored
\* as NULL, any other float as itself (in tenths).
BindReal(x) == IF x = <<>> \/ x[1] = JNaN THEN <<>> ELSE <<x[1].n>>

-----------------------------------------------------------------------------
(* The operations of crud.py as functions of the table.                   *)

\* Mutant: topic and user_content bound to each other's column.
essay_row_columns_swapped(id, topic, user_content, task_type, ai_analysis_json, created_at) ==
    [id |-> id, task_type |-> task_type, topic |-> user_content,
     user_content |-> topic, ai_analysis |-> ai_analysis_json,
     created_at |-> created_at, status |-> ACTIVE]

\* Whether sqlite3 can bind a str as TEXT: it encodes the str as UTF-8,
\* and cursor.execute raises UnicodeEncodeError for a lone surrogate.
Encodable(text) == \A i \in 1..Len(text) : text[i] # "UD83D"

\* The row create_essay inserts (the INSERT's columns and bound values).
essay_row(id, topic, user_content, task_type, ai_analysis_json, created_at) ==
    [id |-> id, task_type |-> task_type, topic |-> topic,
     user_content |-> user_content, ai_analysis |-> ai_analysis_json,
     created_at |-> created_at, status |-> ACTIVE]

\* The row create_kaoyan_record inserts.
kaoyan_row(id, exam_type, paper_type, topic, user_content, scores, ai_analysis_json, created_at) ==
    [id |-> id, exam_type |-> exam_type, paper_type |-> paper_type,
     topic |-> topic, user_content |-> user_content,
     total_score |-> BindReal(scores.total_score),
     language_score |-> BindReal(scores.language_score),
     structure_score |-> BindReal(scores.structure_score),
     logic_score |-> BindReal(scores.logic_score),
     ai_analysis |-> ai_analysis_json, created_at |-> created_at,
     status |-> ACTIVE]

get_essay(tbl, essay_id) == SelectById(tbl, essay_id)

get_kaoyan_record(tbl, record_id) == SelectById(tbl, record_id)

\* Mutant: the WHERE status = ? clause left out.
get_active_essays_no_filter(tbl) == OrderByCreatedAtDesc(tbl, DOMAIN tbl)

\* Mutant: ORDER BY created_at without DESC.
get_active_essays_ascending(tbl) ==
    LET Reverse(q) == [i \in 1..Len(q) |-> q[Len(q) + 1 - i]]
    IN  {Reverse(q) : q \in SelectActiveOrdered(tbl)}

get_active_essays(tbl) == SelectActiveOrdered(tbl)

get_active_kaoyan_records(tbl) == SelectActiveOrdered(tbl)

delete_essay(tbl, essay_id, soft_delete) == delete_statement(tbl, essay_id, soft_delete)

delete_kaoyan_record(tbl, record_id, soft_delete) ==
    delete_statement(tbl, record_id, soft_delete)

-----------------------------------------------------------------------------
(* Arguments of the calls.                                                 *)

\* {"scores": {"overall": 6.5}, "feedback": {"weaknesses": ["say \"no\""]}}
EssayAnalysisA ==
    JDict(<<<<"scores">>, <<"feedback">>>>,
          <<JDict(<<<<"overall">>>>, <<JFloat(65)>>),
            JDict(<<<<"weaknesses">>>>,
                  <<JList(<<JStr(<<"say", " ", "QUOTE", "no", "QUOTE">>)>>)>>)>>)

\* {"scores": {"overall": 7}, "band_9_sample": "<non-ASCII character>"}
EssayAnalysisB ==
    JDict(<<<<"scores">>, <<"band_9_sample">>>>,
          <<JDict(<<<<"overall">>>>, <<JInt(7)>>), JStr(<<"U4E2D">>)>>)

EssayArgs ==
    {[topic |-> "Technology", user_content |-> "essay one", task_type |-> "Task 2",
      ai_analysis |-> EssayAnalysisA],
     [topic |-> "Education", user_content |-> "essay two", task_type |-> "Task 1",
      ai_analysis |-> EssayAnalysisB]}

\* {"score": {"total": 12, "language_score": 4.5, "structure_score": 4, "logic_score": 3.5}}
KaoyanAnalysisA ==
    JDict(<<<<"score">>>>,
          <<JDict(<<<<"total">>, <<"language_score">>, <<"structure_score">>, <<"logic_score">>>>,
                  <<JInt(12), JFloat(45), JInt(4), JFloat(35)>>)>>)

\* {"score": {"total_score": 8, "band": "<non-ASCII character>"}}
KaoyanAnalysisB ==
    JDict(<<<<"score">>>>,
          <<JDict(<<<<"total_score">>, <<"band">>>>, <<JInt(8), JStr(<<"U4E2D">>)>>)>>)

KaoyanArgs ==
    {[exam_type |-> "English I", paper_type |-> "large_essay", topic |-> "Chart",
      user_content |-> "essay three", ai_analysis |-> KaoyanAnalysisA],
     [exam_type |-> "English II", paper_type |-> "small_essay", topic |-> "Letter",
      user_content |-> "essay four", ai_analysis |-> KaoyanAnalysisB]}

\* The ids get and delete are called with: every id a create can return,
\* the later of which are not assigned yet in the earlier states.
Ids == 1..MaxCreates

-----------------------------------------------------------------------------
(* State.                                                                  *)

\* What a call returned.  id: the id passed or, for a create, returned;
\* rows / krows: the essays / kaoyan_records rows returned, <<>> for None.
Ret(op, id, soft, rows, krows) ==
    [op |-> op, id |-> id, soft |-> soft, rows |-> rows, krows |-> krows]

\* The store as init_db leaves a new database file: both tables empty.
Init ==
    /\ essays = <<>>
    /\ kaoyan_records = <<>>
    /\ sqlite_sequence = [essays |-> 0, kaoyan_records |-> 0]
    /\ ret = Ret("init_db", 0, FALSE, <<>>, <<>>)
    /\ calls = [essays |-> <<>>, kaoyan_records |-> <<>>]
    /\ softdel = [essays |-> {}, kaoyan_records |-> {}]
    /\ purged = [essays |-> {}, kaoyan_records |-> {}]
    /\ arg = JNull

CreatesLeft == sqlite_sequence.essays + sqlite_sequence.kaoyan_records < MaxCreates

CreateEssay(topic, user_content, task_type, ai_analysis, now) ==
    LET created_at == isoformat(now)
        ai_analysis_json == json_dumps(ai_analysis, TRUE)
        id == autoincrement_rowid(essays, sqlite_sequence.essays)
    IN  /\ CreatesLeft
        /\ IF Encodable(ai_analysis_json)
           THEN /\ essays' = InsertRow(essays, essay_row(id, topic, user_content, task_type,
                                                         ai_analysis_json, created_at))
                /\ sqlite_sequence' = [sqlite_sequence EXCEPT !.essays = id]
                /\ ret' = Ret("create_essay", id, FALSE, <<>>, <<>>)
                /\ calls' = [calls EXCEPT !.essays =
                                Append(@, [id |-> id, topic |-> topic,
                                           user_content |-> user_content,
                                           task_type |-> task_type,
                                           ai_analysis |-> ai_analysis])]
           ELSE /\ ret' = Ret("create_essay: UnicodeEncodeError", 0, FALSE, <<>>, <<>>)
                /\ UNCHANGED <<essays, sqlite_sequence, calls>>
        /\ UNCHANGED <<kaoyan_records, softdel, purged, arg>>

CreateKaoyanRecord(exam_type, paper_type, topic, user_content, ai_analysis, now) ==
    LET created_at == isoformat(now)
        scores == extract_scores(ai_analysis)
        ai_analysis_json == json_dumps(ai_analysis, FALSE)
        id == autoincrement_rowid(kaoyan_records, sqlite_sequence.kaoyan_records)
    IN  /\ CreatesLeft
        /\ IF Encodable(ai_analysis_json)
           THEN /\ kaoyan_records' =
                       InsertRow(kaoyan_records,
                                 kaoyan_row(id, exam_type, paper_type, topic, user_content,
                                            scores, ai_analysis_json, created_at))
                /\ sqlite_sequence' = [sqlite_sequence EXCEPT !.kaoyan_records = id]
                /\ ret' = Ret("create_kaoyan_record", id, FALSE, <<>>, <<>>)
                /\ calls' = [calls EXCEPT !.kaoyan_records =
                                Append(@, [id |-> id, exam_type |-> exam_type,
                                           paper_type |-> paper_type, topic |-> topic,
                                           user_content |-> user_content,
                                           ai_analysis |-> ai_analysis])]
           ELSE /\ ret' = Ret("create_kaoyan_record: UnicodeEncodeError", 0, FALSE,
                              <<>>, <<>>)
                /\ UNCHANGED <<kaoyan_records, sqlite_sequence, calls>>
        /\ UNCHANGED <<essays, softdel, purged, arg>>

GetEssay(essay_id) ==
    /\ ret' = Ret("get_essay", essay_id, FALSE, get_essay(essays, essay_id), <<>>)
    /\ UNCHANGED <<essays, kaoyan_records, sqlite_sequence, calls, softdel, purged, arg>>

GetKaoyanRecord(record_id) ==
    /\ ret' = Ret("get_kaoyan_record", record_id, FALSE, <<>>,
                  get_kaoyan_record(kaoyan_records, record_id))
    /\ UNCHANGED <<essays, kaoyan_records, sqlite_sequence, calls, softdel, purged, arg>>

GetActiveEssays ==
    /\ \E rows \in get_active_essays(essays) :
           ret' = Ret("get_active_essays", 0, FALSE, rows, <<>>)
    /\ UNCHANGED <<essays, kaoyan_records, sqlite_sequence, calls, softdel, purged, arg>>

GetActiveKaoyanRecords ==
    /\ \E rows \in get_active_kaoyan_records(kaoyan_records) :
           ret' = Ret("get_active_kaoyan_records", 0, FALSE, <<>>, rows)
    /\ UNCHANGED <<essays, kaoyan_records, sqlite_sequence, calls, softdel, purged, arg>>

DeleteEssay(essay_id, soft_delete) ==
    /\ essays' = delete_essay(essays, essay_id, soft_delete)
    /\ ret' = Ret("delete_essay", essay_id, soft_delete, <<>>, <<>>)
    /\ softdel' = IF essay_id \in DOMAIN essays
                  THEN [softdel EXCEPT !.essays =
                           IF soft_delete THEN @ \cup {essay_id} ELSE @ \ {essay_id}]
                  ELSE softdel
    /\ purged' = IF ~soft_delete /\ essay_id \in DOMAIN essays
                 THEN [purged EXCEPT !.essays = @ \cup {essay_id}]
                 ELSE purged
    /\ UNCHANGED <<kaoyan_records, sqlite_sequence, calls, arg>>

DeleteKaoyanRecord(record_id, soft_delete) ==
    /\ kaoyan_records' = delete_kaoyan_record(kaoyan_records, record_id, soft_delete)
    /\ ret' = Ret("delete_kaoyan_record", record_id, soft_delete, <<>>, <<>>)
    /\ softdel' = IF record_id \in DOMAIN kaoyan_records
                  THEN [softdel EXCEPT !.kaoyan_records =
                           IF soft_delete THEN @ \cup {record_id} ELSE @ \ {record_id}]
                  ELSE softdel
    /\ purged' = IF ~soft_delete /\ record_id \in DOMAIN kaoyan_records
                 THEN [purged EXCEPT !.kaoyan_records = @ \cup {record_id}]
                 ELSE purged
    /\ UNCHANGED <<essays, sqlite_sequence, calls, arg>>

Next ==
    \/ \E a \in EssayArgs, now \in Times :
           CreateEssay(a.topic, a.user_content, a.task_type, a.ai_analysis, now)
    \/ \E a \in KaoyanArgs, now \in Times :
           CreateKaoyanRecord(a.exam_type, a.paper_type, a.topic, a.user_content,
                              a.ai_analysis, now)
    \/ \E id \in Ids : GetEssay(id)
    \/ \E id \in Ids : GetKaoyanRecord(id)
    \/ GetActiveEssays
    \/ GetActiveKaoyanRecords
    \/ \E id \in Ids, soft \in BOOLEAN : DeleteEssay(id, soft)
    \/ \E id \in Ids, soft \in BOOLEAN : DeleteKaoyanRecord(id, soft)

Spec == Init /\ [][Next]_vars

-----------------------------------------------------------------------------
(* Properties of the record store.                                         *)

CallSet(tbl) == {calls[tbl][i] : i \in 1..Len(calls[tbl])}

Undeleted(tbl, id) == id \notin softdel[tbl] /\ id \notin purged[tbl]

\* C1: create followed by get on the returned id, with no delete of that id
\* in between and whatever happens to other ids, returns a record whose
\* topic, user_content and type fields are the arguments of the create and
\* whose status is active; the same for Kaoyan records with exam_type and
\* paper_type.
C1_CreateThenGet ==
    /\ \A c \in CallSet("essays") :
           Undeleted("essays", c.id) =>
               /\ Len(get_essay(essays, c.id)) = 1
               /\ LET r == get_essay(essays, c.id)[1]
                  IN  /\ r.topic = c.topic
                      /\ r.user_content = c.user_content
                      /\ r.task_type = c.task_type
                      /\ r.status = ACTIVE
    /\ \A c \in CallSet("kaoyan_records") :
           Undeleted("kaoyan_records", c.id) =>
               /\ Len(get_kaoyan_record(kaoyan_records, c.id)) = 1
               /\ LET r == get_kaoyan_record(kaoyan_records, c.id)[1]
                  IN  /\ r.topic = c.topic
                      /\ r.user_content = c.user_content
                      /\ r.exam_type = c.exam_type
                      /\ r.paper_type = c.paper_type
                      /\ r.status = ACTIVE
    /\ (ret.op = "get_essay" /\ Undeleted("essays", ret.id)
           /\ \E c \in CallSet("essays") : c.id = ret.id)
       => /\ Len(ret.rows) = 1
          /\ ret.rows[1].status = ACTIVE
          /\ \E c \in CallSet("essays") :
                 /\ c.id = ret.id
                 /\ ret.rows[1].topic = c.topic
                 /\ ret.rows[1].user_content = c.user_content
                 /\ ret.rows[1].task_type = c.task_type
    /\ (ret.op = "get_kaoyan_record" /\ Undeleted("kaoyan_records", ret.id)
           /\ \E c \in CallSet("kaoyan_records") : c.id = ret.id)
       => /\ Len(ret.krows) = 1
          /\ ret.krows[1].status = ACTIVE
          /\ \E c \in CallSet("kaoyan_records") :
                 /\ c.id = ret.id
                 /\ ret.krows[1].topic = c.topic
                 /\ ret.krows[1].user_content = c.user_content
                 /\ ret.krows[1].exam_type = c.exam_type
                 /\ ret.krows[1].paper_type = c.paper_type

\* get_essay(1) returns the first essay after a second essay was created
\* and hard-deleted.
C1_Witness ==
    /\ ret.op = "get_essay" /\ ret.id = 1
    /\ Len(ret.rows) = 1 /\ ret.rows[1].topic = "Technology"
    /\ Len(calls.essays) = 2
    /\ 2 \in purged.essays

ActiveIds(tbl) == {k \in DOMAIN tbl : tbl[k].status = ACTIVE}

\* The rows of a result are exactly the active rows of tbl, each once.
ExactlyActive(rows, tbl) ==
    /\ {rows[i].id : i \in 1..Len(rows)} = ActiveIds(tbl)
    /\ Len(rows) = Cardinality(ActiveIds(tbl))
    /\ \A i \in 1..Len(rows) : rows[i] = tbl[rows[i].id] /\ rows[i].status # DELETED

\* C2: in every reachable store state get_active_essays and
\* get_active_kaoyan_records return exactly the rows whose status is
\* active: no deleted row is returned and no active row is missing.
C2_ListActiveExact ==
    /\ ret.op = "get_active_essays" => ExactlyActive(ret.rows, essays)
    /\ ret.op = "get_active_kaoyan_records" => ExactlyActive(ret.krows, kaoyan_records)

\* A listing of one active essay while another is soft-deleted.
C2_Witness ==
    /\ ret.op = "get_active_essays"
    /\ Len(ret.rows) = 1
    /\ \E k \in DOMAIN essays : essays[k].status = DELETED

\* C3: a soft delete of a row that is already soft-deleted leaves the whole
\* store as it was, the row still deleted.
C3_SoftDeleteIdempotent ==
    [][ /\ (ret'.op = "delete_essay" /\ ret'.soft /\ ret'.id \in softdel.essays
               /\ ret'.id \in DOMAIN essays)
           => /\ essays' = essays
              /\ essays'[ret'.id].status = DELETED
              /\ UNCHANGED <<kaoyan_records, sqlite_sequence>>
        /\ (ret'.op = "delete_kaoyan_record" /\ ret'.soft
               /\ ret'.id \in softdel.kaoyan_records /\ ret'.id \in DOMAIN kaoyan_records)
           => /\ kaoyan_records' = kaoyan_records
              /\ kaoyan_records'[ret'.id].status = DELETED
              /\ UNCHANGED <<essays, sqlite_sequence>> ]_vars

\* The state after a soft delete of an essay a soft delete was called on.
C3_Witness ==
    /\ ret.op = "delete_essay" /\ ret.soft
    /\ ret.id \in softdel.essays
    /\ ret.id \in DOMAIN essays /\ essays[ret.id].status = DELETED

\* Everything of an essay row but its status.
EssayCore(r) ==
    <<r.id, r.task_type, r.topic, r.user_content, r.ai_analysis, r.created_at>>

\* Everything of a Kaoyan row but its status.
KaoyanCore(r) ==
    <<r.id, r.exam_type, r.paper_type, r.topic, r.user_content, r.total_score,
      r.language_score, r.structure_score, r.logic_score, r.ai_analysis, r.created_at>>

\* C4: over any step a row's status never moves from deleted back to
\* active, and no other column of a row changes while the row exists.
C4_RowsImmutable ==
    [][ /\ \A k \in DOMAIN essays \cap DOMAIN essays' :
               /\ EssayCore(essays'[k]) = EssayCore(essays[k])
               /\ essays[k].status = DELETED => essays'[k].status = DELETED
        /\ \A k \in DOMAIN kaoyan_records \cap DOMAIN kaoyan_records' :
               /\ KaoyanCore(kaoyan_records'[k]) = KaoyanCore(kaoyan_records[k])
               /\ kaoyan_records[k].status = DELETED
                      => kaoyan_records'[k].status = DELETED ]_vars

\* A soft delete called again on a deleted Kaoyan record beside an active one.
C4_Witness ==
    /\ ret.op = "delete_kaoyan_record" /\ ret.soft
    /\ ret.id \in DOMAIN kaoyan_records /\ kaoyan_records[ret.id].status = DELETED
    /\ \E k \in DOMAIN kaoyan_records : kaoyan_records[k].status = ACTIVE

StrictlyIncreasingIds(tbl) ==
    \A i, j \in 1..Len(calls[tbl]) : i < j => calls[tbl][i].id < calls[tbl][j].id

\* C5: the ids create returns are strictly increasing within a table, so
\* none is assigned twice, also after a hard delete of the largest id.
C5_IdsIncrease ==
    /\ StrictlyIncreasingIds("essays")
    /\ StrictlyIncreasingIds("kaoyan_records")
    /\ ret.op = "create_essay" =>
           /\ ret.id = calls.essays[Len(calls.essays)].id
           /\ ret.id \notin purged.essays
    /\ ret.op = "create_kaoyan_record" =>
           /\ ret.id = calls.kaoyan_records[Len(calls.kaoyan_records)].id
           /\ ret.id \notin purged.kaoyan_records

\* A create that follows the hard delete of the only, hence largest, row.
C5_Witness ==
    /\ ret.op = "create_essay"
    /\ Len(calls.essays) = 2
    /\ calls.essays[1].id \in purged.essays
    /\ DOMAIN essays = {ret.id}

\* The clock reading a stored created_at stands for.
TimeOf(created_at) == CHOOSE t \in Times : isoformat(t) = created_at

\* Newest first: of two rows with different created_at the later comes first.
NewestFirst(rows) ==
    \A i, j \in 1..Len(rows) :
        (i < j /\ rows[i].created_at # rows[j].created_at)
            => TimeLess(TimeOf(rows[j].created_at), TimeOf(rows[i].created_at))

\* C6: get_active_essays and get_active_kaoyan_records return the active
\* records ordered by created_at descending.
C6_NewestFirst ==
    /\ ret.op = "get_active_essays" => NewestFirst(ret.rows)
    /\ ret.op = "get_active_kaoyan_records" => NewestFirst(ret.krows)

\* A listing of two essays of the same second, one with microseconds.
C6_Witness ==
    /\ ret.op = "get_active_essays"
    /\ Len(ret.rows) = 2
    /\ ret.rows[1].created_at = isoformat(<<9, 5>>)
    /\ ret.rows[2].created_at = isoformat(<<9, 0>>)

NeverAssigned(tbl, id) == \A c \in CallSet(tbl) : c.id # id

\* C7: get returns None for an id that was never assigned and for an id
\* whose row was hard-deleted, in every later state.
C7_AbsentIsNone ==
    /\ \A id \in Ids :
           (NeverAssigned("essays", id) \/ id \in purged.essays)
               => get_essay(essays, id) = <<>>
    /\ \A id \in Ids :
           (NeverAssigned("kaoyan_records", id) \/ id \in purged.kaoyan_records)
               => get_kaoyan_record(kaoyan_records, id) = <<>>
    /\ (ret.op = "get_essay"
           /\ (NeverAssigned("essays", ret.id) \/ ret.id \in purged.essays))
       => ret.rows = <<>>
    /\ (ret.op = "get_kaoyan_record"
           /\ (NeverAssigned("kaoyan_records", ret.id) \/ ret.id \in purged.kaoyan_records))
       => ret.krows = <<>>

\* get_essay of a hard-deleted id after a later create.
C7_Witness ==
    /\ ret.op = "get_essay"
    /\ ret.id \in purged.essays
    /\ ret.rows = <<>>
    /\ \E k \in DOMAIN essays : k > ret.id

-----------------------------------------------------------------------------
(* The payload specification: one analysis payload, drawn from Payloads,   *)
(* is created in both tables and read back.                                *)

\* Stands for a key a dict does not have, when payloads are enumerated.
JMissing == [t |-> "missing", n |-> 0, s |-> <<>>, keys |-> <<>>, kids |-> <<>>]

ScoreKeys == <<"total", "language_score", "structure_score", "logic_score", "total_score">>

\* The dict with ScoreKeys[i] -> vals[i], the missing ones left out.
ScoreDict(vals) ==
    LET RECURSIVE Build(_, _)
        Build(i, d) ==
            IF i > Len(ScoreKeys) THEN d
            ELSE Build(i + 1, IF vals[i] = JMissing THEN d
                              ELSE DictPut(d, <<ScoreKeys[i]>>, vals[i]))
    IN  Build(1, JDict(<<>>, <<>>))

\* {"score": score}
WithScore(score) == JDict(<<<<"score">>>>, <<score>>)

\* Every score sub-object whose four detailed keys are each missing, null,
\* a number or a string that is no number, with and without total_score.
ScoreShapePayloads ==
    LET four == {JMissing, JNull, JInt(12), JStr(<<"abc">>)}
        legacy == {JMissing, JInt(8), JStr(<<"abc">>)}
    IN  {WithScore(ScoreDict(<<a, b, c, d, e>>)) :
            a \in four, b \in four, c \in four, d \in four, e \in legacy}

\* The complete detailed score with one value of another kind.
ScoreKindPayloads ==
    LET kinds == {JFloat(45), JBool(TRUE), JStr(<<"7", ".", "5">>), JStr(<<" ", "-", "3">>),
                  JNaN, JStr(<<"nan">>), JList(<<JInt(1)>>), JDict(<<>>, <<>>)}
        full == <<JInt(12), JInt(4), JInt(4), JInt(4), JMissing>>
    IN  {WithScore(ScoreDict([full EXCEPT ![i] = v])) : i \in 1..5, v \in kinds}

\* A score sub-object with total_score alone, its value of every kind.
LegacyKindPayloads ==
    LET kinds == {JNull, JFloat(75), JBool(TRUE), JStr(<<"7", ".", "5">>), JStr(<<" ", "-", "3">>),
                  JNaN, JStr(<<"nan">>), JList(<<JInt(1)>>), JDict(<<>>, <<>>)}
    IN  {WithScore(ScoreDict(<<JMissing, JMissing, JMissing, JMissing, v>>)) : v \in kinds}

\* Payloads whose score is no mapping, or that are no mapping themselves.
OddPayloads ==
    {WithScore(JNull), WithScore(JInt(5)), WithScore(JStr(<<"abc">>)),
     WithScore(JList(<<JInt(1)>>)), JNull, JList(<<>>), JStr(<<"abc">>), JInt(-7),
     JDict(<<>>, <<>>)}

\* {"feedback": {"strengths": ["a \"b\" \\n", "<line feed>{<non-ASCII>}"],
\*               "logic_check": null}, "scores": {"TR": -6.5, "CC": 7, "ok": true},
\*  "improvements": [], "vocabulary": {}, "null": "null"}
EscapesPayload ==
    JDict(<<<<"feedback">>, <<"scores">>, <<"improvements">>, <<"vocabulary">>, <<"null">>>>,
          <<JDict(<<<<"strengths">>, <<"logic_check">>>>,
                  <<JList(<<JStr(<<"a", " ", "QUOTE", "b", "QUOTE", " ", "BSLASH", "n">>),
                            JStr(<<"NL", "{", "U4E2D", "}">>)>>),
                    JNull>>),
            JDict(<<<<"TR">>, <<"CC">>, <<"ok">>>>, <<JFloat(-65), JInt(7), JBool(TRUE)>>),
            JList(<<>>), JDict(<<>>, <<>>), JStr(<<"null">>)>>)

\* {"<non-ASCII>\"": [[1, 2.0], {"a": false}], "\\": "\\u4e2d"}
KeysPayload ==
    JDict(<<<<"U4E2D", "QUOTE">>, <<"BSLASH">>>>,
          <<JList(<<JList(<<JInt(1), JFloat(20)>>), JDict(<<<<"a">>>>, <<JBool(FALSE)>>)>>),
            JStr(<<"BSLASH", "u", "4", "e", "2", "d">>)>>)

\* {"score": {"total": "abc", "language_score": 4, "band": "<lone surrogate>"}}
SurrogatePayload ==
    WithScore(JDict(<<<<"total">>, <<"language_score">>, <<"band">>>>,
                    <<JStr(<<"abc">>), JInt(4), JStr(<<"UD83D">>)>>))

RoundTripPayloads ==
    {EscapesPayload, KeysPayload, SurrogatePayload, EssayAnalysisA, EssayAnalysisB}

Payloads ==
    ScoreShapePayloads \cup ScoreKindPayloads \cup LegacyKindPayloads \cup OddPayloads
        \cup RoundTripPayloads

InitPayload ==
    /\ essays = <<>>
    /\ kaoyan_records = <<>>
    /\ sqlite_sequence = [essays |-> 0, kaoyan_records |-> 0]
    /\ ret = Ret("init_db", 0, FALSE, <<>>, <<>>)
    /\ calls = [essays |-> <<>>, kaoyan_records |-> <<>>]
    /\ softdel = [essays |-> {}, kaoyan_records |-> {}]
    /\ purged = [essays |-> {}, kaoyan_records |-> {}]
    /\ arg \in Payloads

NextPayload ==
    \/ CreateEssay("Technology", "essay one", "Task 2", arg, <<9, 0>>)
    \/ CreateKaoyanRecord("English II", "large_essay", "Chart", "essay three", arg, <<9, 5>>)
    \/ GetEssay(1)
    \/ GetKaoyanRecord(1)

SpecPayload == InitPayload /\ [][NextPayload]_vars

-----------------------------------------------------------------------------
(* Properties of the stored payload and of the score columns.              *)

\* The create call that returned id.
CallOf(tbl, id) == CHOOSE c \in CallSet(tbl) : c.id = id

\* The stored text deserializes to the payload.
ReadsBackAs(text, payload) == json_loads(text) = [ok |-> TRUE, val |-> payload]

\* C8: the analysis payload passed to create_essay or create_kaoyan_record,
\* read back through get and deserialized from the stored text, is
\* structurally identical to the payload passed in.
C8_PayloadRoundTrip ==
    /\ \A k \in DOMAIN essays :
           ReadsBackAs(essays[k].ai_analysis, CallOf("essays", k).ai_analysis)
    /\ \A k \in DOMAIN kaoyan_records :
           ReadsBackAs(kaoyan_records[k].ai_analysis,
                       CallOf("kaoyan_records", k).ai_analysis)
    /\ (ret.op = "get_essay" /\ ret.rows # <<>>)
           => ReadsBackAs(ret.rows[1].ai_analysis, arg)
    /\ (ret.op = "get_kaoyan_record" /\ ret.krows # <<>>)
           => ReadsBackAs(ret.krows[1].ai_analysis, arg)

\* Both tables read back a payload with quotes, backslashes, a line feed
\* and a non-ASCII character.
C8_Witness ==
    /\ arg = EscapesPayload
    /\ ret.op = "get_kaoyan_record" /\ ret.krows # <<>>
    /\ 1 \in DOMAIN essays
    /\ essays[1].ai_analysis # ret.krows[1].ai_analysis

\* The score sub-object create_kaoyan_record reads, JMissing when the
\* payload has none it can read.
ScoreOf(payload) ==
    IF payload.t = "dict" THEN DictGet(payload, <<"score">>, JDict(<<>>, <<>>)) ELSE JMissing

FourKeys == {"total", "language_score", "structure_score", "logic_score"}

\* The value of a key of the score sub-object, null when it is missing.
ScoreValue(payload, key) == DictGet(ScoreOf(payload), <<key>>, JNull)

\* The detailed shape: total or language_score has a value.
Detailed(payload) ==
    /\ ScoreOf(payload).t = "dict"
    /\ ScoreValue(payload, "total") # JNull \/ ScoreValue(payload, "language_score") # JNull

\* The numeric conversion of one of the four values fails.
ConversionFails(payload) ==
    /\ Detailed(payload)
    /\ \E key \in FourKeys :
           ScoreValue(payload, key) # JNull /\ ~py_float(ScoreValue(payload, key)).ok

Columns(r) == <<r.total_score, r.language_score, r.structure_score, r.logic_score>>

\* C9: when the numeric conversion of one of score.total,
\* score.language_score, score.structure_score, score.logic_score fails,
\* the stored row has all four columns absent, and the row is created with
\* the full analysis payload: the call raises only for a text SQLite cannot
\* store, never for a failed conversion.
C9_FailedConversionDiscardsAll ==
    /\ \A k \in DOMAIN kaoyan_records :
           LET payload == CallOf("kaoyan_records", k).ai_analysis
           IN  ConversionFails(payload) =>
                   /\ Columns(kaoyan_records[k]) = <<<<>>, <<>>, <<>>, <<>>>>
                   /\ kaoyan_records[k].status = ACTIVE
                   /\ ReadsBackAs(kaoyan_records[k].ai_analysis, payload)
    /\ ret.op = "create_kaoyan_record: UnicodeEncodeError"
           => ~Encodable(json_dumps(arg, FALSE))

\* A record whose total and language_score are numbers and whose
\* logic_score is "abc".
C9_Witness ==
    /\ arg = WithScore(ScoreDict(<<JInt(12), JInt(12), JNull, JStr(<<"abc">>), JMissing>>))
    /\ ret.op = "get_kaoyan_record" /\ ret.krows # <<>>
    /\ ret.krows[1].total_score = <<>>

AllPopulated(r) == \A i \in 1..4 : Columns(r)[i] # <<>>

AllAbsent(r) == \A i \in 1..4 : Columns(r)[i] = <<>>

\* C10 as stated: for every Kaoyan record whose score sub-object has the
\* detailed shape the four columns are all populated or all absent.
C10_AllOrNothing ==
    \A k \in DOMAIN kaoyan_records :
        Detailed(CallOf("kaoyan_records", k).ai_analysis)
            => AllPopulated(kaoyan_records[k]) \/ AllAbsent(kaoyan_records[k])

\* The column a key of the score sub-object is stored in.
ColumnOf(r, key) ==
    CASE key = "total" -> r.total_score
      [] key = "language_score" -> r.language_score
      [] key = "structure_score" -> r.structure_score
      [] key = "logic_score" -> r.logic_score

\* C10 as amended: for every Kaoyan record whose score sub-object has the
\* detailed shape, either a conversion failed and all four columns are
\* absent, or each column holds the float of its key's value when the key
\* has a value that is a number, and is absent when the key is missing,
\* null or NaN.
C10_ColumnPerKey ==
    \A k \in DOMAIN kaoyan_records :
        LET payload == CallOf("kaoyan_records", k).ai_analysis
            r == kaoyan_records[k]
        IN  Detailed(payload) =>
                IF ConversionFails(payload) THEN AllAbsent(r)
                ELSE \A key \in FourKeys :
                         LET v == ScoreValue(payload, key)
                         IN  IF v = JNull \/ py_float(v).val = JNaN
                             THEN ColumnOf(r, key) = <<>>
                             ELSE ColumnOf(r, key) = <<py_float(v).val.n>>

\* A record whose score has total and language_score and nothing else:
\* two columns populated, two absent.
C10_Witness ==
    /\ arg = WithScore(ScoreDict(<<JInt(12), JInt(12), JMissing, JMissing, JMissing>>))
    /\ ret.op = "get_kaoyan_record" /\ ret.krows # <<>>
    /\ ret.krows[1].total_score = <<120>>
    /\ ret.krows[1].language_score = <<120>>
    /\ ret.krows[1].structure_score = <<>>
    /\ ret.krows[1].logic_score = <<>>

\* The shape that is not the detailed one: neither total nor language_score
\* has a value, or there is no score sub-object to read them from.
Legacy(payload) == ~Detailed(payload)

\* The value of total_score in the score sub-object, null when there is none.
LegacyTotal(payload) ==
    IF ScoreOf(payload).t = "dict" THEN ScoreValue(payload, "total_score") ELSE JNull

\* C11 as stated: for every Kaoyan record whose score sub-object contains
\* neither total nor language_score, if it contains total_score only the
\* total_score column is populated and the other three are absent;
\* otherwise, and when the payload is no mapping or has no score
\* sub-object, all four columns are absent.
C11_LegacyTotalPopulated ==
    \A k \in DOMAIN kaoyan_records :
        LET payload == CallOf("kaoyan_records", k).ai_analysis
            r == kaoyan_records[k]
        IN  Legacy(payload) =>
                IF LegacyTotal(payload) # JNull
                THEN /\ r.total_score # <<>>
                     /\ r.language_score = <<>>
                     /\ r.structure_score = <<>>
                     /\ r.logic_score = <<>>
                ELSE AllAbsent(r)

\* C11 as amended: for every Kaoyan record whose score sub-object has
\* neither total nor language_score, the language_score, structure_score
\* and logic_score columns are absent, and the total_score column holds
\* the float of score.total_score when that value converts to a number
\* other than NaN; it is absent when total_score is missing or null, when
\* its conversion fails or gives NaN, and when the payload is no mapping
\* or its score is no mapping.
C11_LegacyTotalWhenNumeric ==
    \A k \in DOMAIN kaoyan_records :
        LET payload == CallOf("kaoyan_records", k).ai_analysis
            r == kaoyan_records[k]
            v == LegacyTotal(payload)
        IN  Legacy(payload) =>
                /\ r.language_score = <<>>
                /\ r.structure_score = <<>>
                /\ r.logic_score = <<>>
                /\ IF v # JNull /\ py_float(v).ok /\ py_float(v).val # JNaN
                   THEN r.total_score = <<py_float(v).val.n>>
                   ELSE r.total_score = <<>>

\* A record whose score has total_score 8 and a structure_score, but
\* neither total nor language_score: only total_score is stored.
C11_Witness ==
    /\ arg = WithScore(ScoreDict(<<JMissing, JNull, JInt(12), JMissing, JInt(8)>>))
    /\ ret.op = "get_kaoyan_record" /\ ret.krows # <<>>
    /\ Columns(ret.krows[1]) = <<<<80>>, <<>>, <<>>, <<>>>>

-----------------------------------------------------------------------------
(* The trajectory extractors get_trajectory_data and                       *)
(* get_kaoyan_trajectory_data.  A call returns [ok, err, list]: the list   *)
(* of summaries, or ok = FALSE and the exception that left the function.   *)

\* list.reverse()
reverse(q) == [i \in 1..Len(q) |-> q[Len(q) + 1 - i]]

Returned(history_data) == [ok |-> TRUE, err |-> "", list |-> history_data]

Raised(exception) == [ok |-> FALSE, err |-> exception, list |-> <<>>]

\* A REAL column as sqlite3 hands it to Python: None or a float.
ColumnValue(x) == IF x = <<>> THEN JNull ELSE JFloat(x[1])

\* The dict get_trajectory_data appends for an essay whose analysis is a
\* dict with a dict (or no) feedback.
essay_summary(essay, idx, analysis) ==
    LET scores == DictGet(analysis, <<"scores">>, JDict(<<>>, <<>>))
        feedback == DictGet(analysis, <<"feedback">>, JDict(<<>>, <<>>))
    IN  [id |-> essay.id, index |-> idx, created_at |-> essay.created_at,
         topic |-> essay.topic, task_type |-> essay.task_type, scores |-> scores,
         weaknesses |-> DictGet(feedback, <<"weaknesses">>, JList(<<>>))]

\* Whether the body of the try block raises AttributeError: .get is called
\* on the analysis and on its feedback, which only a dict has.
essay_get_raises(analysis) ==
    \/ analysis.t # "dict"
    \/ DictGet(analysis, <<"feedback">>, JDict(<<>>, <<>>)).t # "dict"

\* Mutant: the index counts the summaries appended, not the records seen.
RECURSIVE trajectory_loop_renumbering(_, _, _)
trajectory_loop_renumbering(rows, idx, history_data) ==
    IF idx > Len(rows) THEN Returned(history_data)
    ELSE LET essay == rows[idx]
             parsed == json_loads(essay.ai_analysis)
         IN  IF essay.ai_analysis = <<>> \/ ~parsed.ok
             THEN trajectory_loop_renumbering(rows, idx + 1, history_data)
             ELSE IF essay_get_raises(parsed.val) THEN Raised("AttributeError")
             ELSE trajectory_loop_renumbering(
                      rows, idx + 1,
                      Append(history_data,
                             essay_summary(essay, Len(history_data) + 1, parsed.val)))

\* Mutant: json.loads outside a try block, so that JSONDecodeError leaves
\* the function.
RECURSIVE trajectory_loop_without_except(_, _, _)
trajectory_loop_without_except(rows, idx, history_data) ==
    IF idx > Len(rows) THEN Returned(history_data)
    ELSE LET essay == rows[idx]
             parsed == json_loads(essay.ai_analysis)
         IN  IF essay.ai_analysis = <<>>
             THEN trajectory_loop_without_except(rows, idx + 1, history_data)
             ELSE IF ~parsed.ok THEN Raised("JSONDecodeError")
             ELSE IF essay_get_raises(parsed.val) THEN Raised("AttributeError")
             ELSE trajectory_loop_without_except(
                      rows, idx + 1,
                      Append(history_data, essay_summary(essay, idx, parsed.val)))

\* The loop of get_trajectory_data from the record at position idx on:
\* an empty or unparsable analysis is skipped, an AttributeError is not
\* caught.
RECURSIVE trajectory_loop(_, _, _)
trajectory_loop(rows, idx, history_data) ==
    IF idx > Len(rows) THEN Returned(history_data)
    ELSE LET essay == rows[idx]
             parsed == json_loads(essay.ai_analysis)
         IN  IF essay.ai_analysis = <<>> \/ ~parsed.ok
             THEN trajectory_loop(rows, idx + 1, history_data)
             ELSE IF essay_get_raises(parsed.val) THEN Raised("AttributeError")
             ELSE trajectory_loop(
                      rows, idx + 1,
                      Append(history_data, essay_summary(essay, idx, parsed.val)))

\* Every result the call may give: one per order get_active_essays may
\* return the rows in.
get_trajectory_data(tbl) ==
    {trajectory_loop(reverse(rows), 1, <<>>) : rows \in get_active_essays(tbl)}

\* score = analysis.get("score", {}) if isinstance(analysis, dict) else {}
kaoyan_score(analysis) ==
    IF analysis.t = "dict" THEN DictGet(analysis, <<"score">>, JDict(<<>>, <<>>))
    ELSE JDict(<<>>, <<>>)

\* The dict get_kaoyan_trajectory_data appends for a record whose score is
\* a dict.
kaoyan_summary(record, idx, score) ==
    [id |-> record.id, index |-> idx, created_at |-> record.created_at,
     topic |-> record.topic, exam_type |-> record.exam_type,
     paper_type |-> record.paper_type,
     total_score |-> DictGet(score, <<"total_score">>, ColumnValue(record.total_score)),
     band |-> DictGet(score, <<"band">>, JNull),
     evaluation_summary |-> DictGet(score, <<"evaluation_summary">>, JStr(<<>>))]

\* The loop of get_kaoyan_trajectory_data: .get is called on the score,
\* outside any try block.
RECURSIVE kaoyan_trajectory_loop(_, _, _)
kaoyan_trajectory_loop(rows, idx, history_data) ==
    IF idx > Len(rows) THEN Returned(history_data)
    ELSE LET record == rows[idx]
             parsed == json_loads(record.ai_analysis)
         IN  IF record.ai_analysis = <<>> \/ ~parsed.ok
             THEN kaoyan_trajectory_loop(rows, idx + 1, history_data)
             ELSE IF kaoyan_score(parsed.val).t # "dict" THEN Raised("AttributeError")
             ELSE kaoyan_trajectory_loop(
                      rows, idx + 1,
                      Append(history_data,
                             kaoyan_summary(record, idx, kaoyan_score(parsed.val))))

get_kaoyan_trajectory_data(tbl) ==
    {kaoyan_trajectory_loop(reverse(rows), 1, <<>>) : rows \in get_active_kaoyan_records(tbl)}

\* Mutant: the extractor tidies the table it reads, purging the rows it
\* does not report.
GetTrajectoryDataPurging ==
    /\ \E r \in get_trajectory_data(essays) :
           ret' = IF r.ok THEN Ret("get_trajectory_data", 0, FALSE, r.list, <<>>)
                  ELSE Ret("get_trajectory_data: AttributeError", 0, FALSE, <<>>, <<>>)
    /\ essays' = [k \in {j \in DOMAIN essays : essays[j].status = ACTIVE} |-> essays[k]]
    /\ UNCHANGED <<kaoyan_records, sqlite_sequence, calls, softdel, purged, arg>>

GetTrajectoryData ==
    /\ \E r \in get_trajectory_data(essays) :
           ret' = IF r.ok THEN Ret("get_trajectory_data", 0, FALSE, r.list, <<>>)
                  ELSE Ret("get_trajectory_data: AttributeError", 0, FALSE, <<>>, <<>>)
    /\ UNCHANGED <<essays, kaoyan_records, sqlite_sequence, calls, softdel, purged, arg>>

GetKaoyanTrajectoryData ==
    /\ \E r \in get_kaoyan_trajectory_data(kaoyan_records) :
           ret' = IF r.ok THEN Ret("get_kaoyan_trajectory_data", 0, FALSE, <<>>, r.list)
                  ELSE Ret("get_kaoyan_trajectory_data: AttributeError", 0, FALSE,
                           <<>>, <<>>)
    /\ UNCHANGED <<essays, kaoyan_records, sqlite_sequence, calls, softdel, purged, arg>>

-----------------------------------------------------------------------------
(* The trajectory specification.  init_db creates the tables only if they  *)
(* are missing, so a run starts from the database file earlier runs left:  *)
(* rows with ids 1..n, written at any clock readings, some soft-deleted,   *)
(* some with an analysis text that was damaged or emptied in the file.     *)
(* Analysis texts that parse are written by the create calls of this run.  *)

\* Rows in the database file at the start of the run.
MaxStored == 3

\* An analysis text cut off inside the object: {"scores":
CorruptText == <<"{", "QUOTE", "scores", "QUOTE", ":", " ">>

\* What a stored row is: active with the text create wrote, active with a
\* damaged text, active with an empty text, or soft-deleted (its text is
\* the one create wrote: a listing must leave it out for its status alone).
StoredKinds == {"parsable", "corrupt", "empty", "deleted"}

StoredText(kind, ai_analysis_json) ==
    CASE kind = "corrupt" -> CorruptText
      [] kind = "empty" -> <<>>
      [] OTHER -> ai_analysis_json

StoredStatus(kind) == IF kind = "deleted" THEN DELETED ELSE ACTIVE

\* The essays table of a file with n rows of the given kinds and times.
StoredEssays(n, kind, time) ==
    [k \in 1..n |->
        [essay_row(k, "Technology", "essay one", "Task 2",
                   StoredText(kind[k], json_dumps(EssayAnalysisA, TRUE)),
                   isoformat(time[k]))
            EXCEPT !.status = StoredStatus(kind[k])]]

\* The kaoyan_records table of a file with n rows of the given kinds and times.
StoredKaoyanRecords(n, kind, time) ==
    [k \in 1..n |->
        [kaoyan_row(k, "English I", "large_essay", "Chart", "essay three",
                    extract_scores(KaoyanAnalysisA),
                    StoredText(kind[k], json_dumps(KaoyanAnalysisA, FALSE)),
                    isoformat(time[k]))
            EXCEPT !.status = StoredStatus(kind[k])]]

\* [1]
ListPayload == JList(<<JInt(1)>>)

\* {"scores": {"overall": 7}, "feedback": "good"}
FeedbackTextPayload ==
    JDict(<<<<"scores">>, <<"feedback">>>>,
          <<JDict(<<<<"overall">>>>, <<JInt(7)>>), JStr(<<"good">>)>>)

\* {"scores": 5}
ScoresNumberPayload == JDict(<<<<"scores">>>>, <<JInt(5)>>)

\* The results the essay grader's caller stores in this specification.
TrajectoryEssayPayloads ==
    {EssayAnalysisA, ListPayload, FeedbackTextPayload, ScoresNumberPayload}

\* {"score": {"total": 12, "language_score": 4, "total_score": null}}
NullTotalScorePayload ==
    WithScore(JDict(<<<<"total">>, <<"language_score">>, <<"total_score">>>>,
                    <<JInt(12), JInt(4), JNull>>))

\* The results the Kaoyan grader's caller stores in this specification.
TrajectoryKaoyanPayloads ==
    {KaoyanAnalysisA, KaoyanAnalysisB, NullTotalScorePayload, WithScore(JInt(5)),
     ListPayload}

InitTrajectory ==
    \E n \in 0..MaxStored, table \in {"essays", "kaoyan_records"} :
        \E kind \in [1..n -> StoredKinds], time \in [1..n -> Times] :
            LET deleted == {k \in 1..n : kind[k] = "deleted"}
            IN  /\ essays = IF table = "essays" THEN StoredEssays(n, kind, time) ELSE <<>>
                /\ kaoyan_records = IF table = "kaoyan_records"
                                    THEN StoredKaoyanRecords(n, kind, time)
                                    ELSE <<>>
                /\ sqlite_sequence = [essays |-> IF table = "essays" THEN n ELSE 0,
                                      kaoyan_records |->
                                          IF table = "kaoyan_records" THEN n ELSE 0]
                /\ ret = Ret("init_db", 0, FALSE, <<>>, <<>>)
                /\ calls = [essays |-> <<>>, kaoyan_records |-> <<>>]
                /\ softdel = [essays |-> IF table = "essays" THEN deleted ELSE {},
                              kaoyan_records |->
                                  IF table = "kaoyan_records" THEN deleted ELSE {}]
                /\ purged = [essays |-> {}, kaoyan_records |-> {}]
                /\ arg = JNull

NextTrajectory ==
    \/ \E ai_analysis \in TrajectoryEssayPayloads, now \in {<<9, 5>>, <<10, 0>>} :
           CreateEssay("Education", "essay two", "Task 1", ai_analysis, now)
    \/ \E ai_analysis \in TrajectoryKaoyanPayloads, now \in {<<9, 5>>, <<10, 0>>} :
           CreateKaoyanRecord("English II", "small_essay", "Letter", "essay four",
                              ai_analysis, now)
    \/ GetTrajectoryData
    \/ GetKaoyanTrajectoryData

SpecTrajectory == InitTrajectory /\ [][NextTrajectory]_vars

-----------------------------------------------------------------------------
(* Properties of the trajectory extractors.                                *)

\* The active rows of tbl created before the clock reading t, and those
\* created at t or before.
CreatedBefore(tbl, t) ==
    {k \in ActiveIds(tbl) : TimeLess(TimeOf(tbl[k].created_at), t)}

CreatedUpTo(tbl, t) ==
    {k \in ActiveIds(tbl) : ~TimeLess(t, TimeOf(tbl[k].created_at))}

\* The summaries carry the positions of their records in the oldest-first
\* list of the active rows of tbl.
OldestFirstIndexed(list, tbl) ==
    /\ \A i, j \in 1..Len(list) :
           i < j => /\ list[i].index < list[j].index
                    /\ ~TimeLess(TimeOf(list[j].created_at), TimeOf(list[i].created_at))
    /\ \A i \in 1..Len(list) :
           LET t == TimeOf(list[i].created_at)
           IN  /\ list[i].id \in ActiveIds(tbl)
               /\ list[i].created_at = tbl[list[i].id].created_at
               /\ Cardinality(CreatedBefore(tbl, t)) < list[i].index
               /\ list[i].index <= Cardinality(CreatedUpTo(tbl, t))

\* C12: the summaries get_trajectory_data and get_kaoyan_trajectory_data
\* return are oldest first, and the index of each is the 1-based position
\* of its record in the oldest-first list of all active records, whatever
\* the ids: the indices increase strictly and a skipped record leaves a gap.
C12_OldestFirstIndex ==
    /\ ret.op = "get_trajectory_data" => OldestFirstIndexed(ret.rows, essays)
    /\ ret.op = "get_kaoyan_trajectory_data" => OldestFirstIndexed(ret.krows, kaoyan_records)

\* Three active essays whose ids run against their times, the middle one
\* in time unparsable: the summaries are those of ids 3 and 1 with index
\* 1 and 3.
C12_Witness ==
    /\ ret.op = "get_trajectory_data"
    /\ DOMAIN essays = 1..3
    /\ essays[3].created_at = isoformat(<<9, 0>>)
    /\ essays[2].created_at = isoformat(<<9, 5>>)
    /\ essays[1].created_at = isoformat(<<10, 0>>)
    /\ Len(ret.rows) = 2
    /\ ret.rows[1].id = 3 /\ ret.rows[1].index = 1
    /\ ret.rows[2].id = 1 /\ ret.rows[2].index = 3

\* The analysis text of a row is not empty and parses as JSON.
Parsable(row) == row.ai_analysis # <<>> /\ json_loads(row.ai_analysis).ok

ParsableActive(tbl) == {k \in ActiveIds(tbl) : Parsable(tbl[k])}

\* One summary for each parsable active row of tbl, and for no other row.
OnePerParsableActive(list, tbl) ==
    /\ Len(list) = Cardinality(ParsableActive(tbl))
    /\ {list[i].id : i \in 1..Len(list)} = ParsableActive(tbl)
    /\ Len(list) <= Cardinality(ActiveIds(tbl))
    /\ \A i \in 1..Len(list) : tbl[list[i].id].status # DELETED

AllCreated(tbl, name) == \A k \in DOMAIN tbl : \E c \in CallSet(name) : c.id = k

\* C14 as stated: in every store state the create operations lead to,
\* whatever the analysis results stored, get_trajectory_data and
\* get_kaoyan_trajectory_data complete and return a list.
C14_TrajectoryCompletes ==
    /\ AllCreated(essays, "essays") => ret.op # "get_trajectory_data: AttributeError"
    /\ AllCreated(kaoyan_records, "kaoyan_records")
           => ret.op # "get_kaoyan_trajectory_data: AttributeError"

\* C15 as stated: the total_score of every Kaoyan summary is
\* score.total_score of the stored JSON when that has a value, and the
\* total_score column of the record otherwise.
C15_TotalScorePrefersJson ==
    ret.op = "get_kaoyan_trajectory_data" =>
        \A i \in 1..Len(ret.krows) :
            LET record == kaoyan_records[ret.krows[i].id]
                score == kaoyan_score(json_loads(record.ai_analysis).val)
                rederived == DictGet(score, <<"total_score">>, JNull)
            IN  ret.krows[i].total_score =
                    IF rederived # JNull THEN rederived
                    ELSE ColumnValue(record.total_score)

-----------------------------------------------------------------------------
(* The grading services (services/deepseek_service.py and                  *)
(* services/gemini_service.py): the normalisation of a Kaoyan request.     *)
(* In the texts of a request a character is one letter, digit or blank,    *)
(* or one of the Chinese characters U4E00 (one), U4E8C (two), U5C0F        *)
(* (small), U5927 (large), U82F1 U8BED (English), U4F5C U6587 (essay).     *)
(* An argument that may be None is <<>> for None and <<text>> for a str.   *)

UpperCase ==
    <<"A", "B", "C", "D", "E", "F", "G", "H", "I", "J", "K", "L", "M",
      "N", "O", "P", "Q", "R", "S", "T", "U", "V", "W", "X", "Y", "Z">>

LowerCase ==
    <<"a", "b", "c", "d", "e", "f", "g", "h", "i", "j", "k", "l", "m",
      "n", "o", "p", "q", "r", "s", "t", "u", "v", "w", "x", "y", "z">>

\* str.lower() of one character
LowerChar(c) ==
    IF \E i \in 1..26 : UpperCase[i] = c
    THEN LowerCase[CHOOSE i \in 1..26 : UpperCase[i] = c]
    ELSE c

\* str.lower()
py_lower(text) == [i \in 1..Len(text) |-> LowerChar(text[i])]

RECURSIVE py_lstrip(_)
py_lstrip(text) ==
    IF text # <<>> /\ Head(text) \in Whitespace THEN py_lstrip(Tail(text)) ELSE text

RECURSIVE py_rstrip(_)
py_rstrip(text) ==
    IF text # <<>> /\ text[Len(text)] \in Whitespace
    THEN py_rstrip(SubSeq(text, 1, Len(text) - 1))
    ELSE text

\* str.strip()
py_strip(text) == py_rstrip(py_lstrip(text))

\* needle in text
Contains(text, needle) ==
    \E i \in 1..(Len(text) - Len(needle) + 1) : SubSeq(text, i, i + Len(needle) - 1) = needle

\* x or ""
OrEmpty(x) == IF x = <<>> THEN <<>> ELSE x[1]

ENGLISH_I == <<"E", "n", "g", "l", "i", "s", "h", " ", "I">>

ENGLISH_II == <<"E", "n", "g", "l", "i", "s", "h", " ", "I", "I">>

SMALL_ESSAY == <<"s", "m", "a", "l", "l", "_", "e", "s", "s", "a", "y">>

LARGE_ESSAY == <<"l", "a", "r", "g", "e", "_", "e", "s", "s", "a", "y">>

\* Mutant: the test for English II made first.
DeepSeekService_normalize_exam_type_two_first(exam_type) ==
    LET value == py_lower(py_strip(OrEmpty(exam_type)))
    IN  IF Contains(value, <<"U4E8C">>) \/ Contains(value, <<"2">>) THEN ENGLISH_II
        ELSE IF Contains(value, <<"U4E00">>) \/ Contains(value, <<"1">>) THEN ENGLISH_I
        ELSE IF Contains(value, <<"e", "n", "g", "l", "i", "s", "h", " ", "i", "i">>) THEN ENGLISH_II
        ELSE ENGLISH_I

\* DeepSeekService._normalize_exam_type
DeepSeekService_normalize_exam_type(exam_type) ==
    LET value == py_lower(py_strip(OrEmpty(exam_type)))
    IN  IF Contains(value, <<"U4E00">>) \/ Contains(value, <<"1">>) THEN ENGLISH_I
        ELSE IF Contains(value, <<"U4E8C">>) \/ Contains(value, <<"2">>) THEN ENGLISH_II
        ELSE IF Contains(value, <<"e", "n", "g", "l", "i", "s", "h", " ", "i", "i">>) THEN ENGLISH_II
        ELSE ENGLISH_I

\* DeepSeekService._normalize_paper_type
DeepSeekService_normalize_paper_type(paper_type) ==
    LET value == py_lower(py_strip(OrEmpty(paper_type)))
    IN  IF Contains(value, <<"s", "m", "a", "l", "l">>) \/ Contains(value, <<"U5C0F">>) THEN SMALL_ESSAY
        ELSE IF Contains(value, <<"l", "a", "r", "g", "e">>) \/ Contains(value, <<"U5927">>) THEN LARGE_ESSAY
        ELSE LARGE_ESSAY

\* Mutant: the large essay of English II scored like that of English I.
DeepSeekService_get_max_score_always_20(exam_type, paper_type) ==
    IF paper_type = SMALL_ESSAY THEN 10 ELSE 20

\* DeepSeekService._get_max_score
DeepSeekService_get_max_score(exam_type, paper_type) ==
    IF exam_type = ENGLISH_I THEN (IF paper_type = SMALL_ESSAY THEN 10 ELSE 20)
    ELSE IF exam_type = ENGLISH_II THEN (IF paper_type = SMALL_ESSAY THEN 10 ELSE 15)
    ELSE 20

\* GeminiService._normalize_exam_type
GeminiService_normalize_exam_type(exam_type) ==
    LET value == py_lower(py_strip(OrEmpty(exam_type)))
    IN  IF Contains(value, <<"U4E00">>) \/ Contains(value, <<"1">>) THEN ENGLISH_I
        ELSE IF Contains(value, <<"U4E8C">>) \/ Contains(value, <<"2">>) THEN ENGLISH_II
        ELSE IF Contains(value, <<"e", "n", "g", "l", "i", "s", "h", " ", "i", "i">>) THEN ENGLISH_II
        ELSE ENGLISH_I

\* GeminiService._normalize_paper_type
GeminiService_normalize_paper_type(paper_type) ==
    LET value == py_lower(py_strip(OrEmpty(paper_type)))
    IN  IF Contains(value, <<"s", "m", "a", "l", "l">>) \/ Contains(value, <<"U5C0F">>) THEN SMALL_ESSAY
        ELSE IF Contains(value, <<"l", "a", "r", "g", "e">>) \/ Contains(value, <<"U5927">>) THEN LARGE_ESSAY
        ELSE LARGE_ESSAY

\* GeminiService._get_max_score
GeminiService_get_max_score(exam_type, paper_type) ==
    IF exam_type = ENGLISH_I THEN (IF paper_type = SMALL_ESSAY THEN 10 ELSE 20)
    ELSE IF exam_type = ENGLISH_II THEN (IF paper_type = SMALL_ESSAY THEN 10 ELSE 15)
    ELSE 20

\* The max_score the Kaoyan view page shows for a stored record.
kaoyan_view_max_score(exam_type, paper_type) ==
    IF exam_type = ENGLISH_I THEN (IF paper_type = SMALL_ESSAY THEN 10 ELSE 20)
    ELSE IF exam_type = ENGLISH_II THEN (IF paper_type = SMALL_ESSAY THEN 10 ELSE 15)
    ELSE 20

-----------------------------------------------------------------------------
(* The request specification: one Kaoyan request (exam_type, paper_type)   *)
(* is normalised by either service, and the view page computes the         *)
(* max_score of a record stored with these two values.                     *)

\* Free text around the words of an exam type.
ExamAffixes == {<<>>, <<"1">>, <<"2">>, <<"U4E00">>, <<"U4E8C">>, <<" ">>, <<"x">>}

\* "", English I, English II, ENGLISH II, the Chinese names of the two
\* exams, English 2, Kaoyan
ExamWords ==
    {<<>>, ENGLISH_I, ENGLISH_II, <<"E", "N", "G", "L", "I", "S", "H", " ", "I", "I">>,
     <<"U82F1", "U8BED", "U4E8C">>, <<"U82F1", "U8BED", "U4E00">>,
     <<"E", "n", "g", "l", "i", "s", "h", " ", "2">>, <<"K", "a", "o", "y", "a", "n">>}

ExamTexts ==
    {pre \o word \o post : pre \in ExamAffixes, word \in ExamWords, post \in ExamAffixes}

\* Free text around the words of a paper type.
PaperAffixes == {<<>>, <<"U5C0F">>, <<"U5927">>, <<" ">>, <<"x">>, <<"s", "m", "a", "l", "l">>}

\* "", small_essay, large_essay, SMALL, Large, the Chinese names of the two
\* essays, essay
PaperWords ==
    {<<>>, SMALL_ESSAY, LARGE_ESSAY, <<"S", "M", "A", "L", "L">>, <<"L", "a", "r", "g", "e">>,
     <<"U5C0F", "U4F5C", "U6587">>, <<"U5927", "U4F5C", "U6587">>,
     <<"e", "s", "s", "a", "y">>}

PaperTexts ==
    {pre \o word \o post : pre \in PaperAffixes, word \in PaperWords, post \in PaperAffixes}

\* None or a str
Optional(texts) == {<<>>} \cup {<<text>> : text \in texts}

\* The requests: every exam text with a plain paper type, and every paper
\* text with a plain exam type.
KaoyanRequests ==
    {[exam_type |-> e, paper_type |-> p] :
        e \in Optional(ExamTexts), p \in Optional(PaperWords)}
    \cup {[exam_type |-> e, paper_type |-> p] :
             e \in Optional(ExamWords), p \in Optional(PaperTexts)}

\* The configuration of a request: what the prompt is built from.
Configuration(op, exam_type, paper_type, max_score) ==
    [op |-> op, exam_type |-> exam_type, paper_type |-> paper_type, max_score |-> max_score]

InitRequest ==
    /\ essays = <<>>
    /\ kaoyan_records = <<>>
    /\ sqlite_sequence = [essays |-> 0, kaoyan_records |-> 0]
    /\ ret = Configuration("init_db", <<>>, <<>>, 0)
    /\ calls = [essays |-> <<>>, kaoyan_records |-> <<>>]
    /\ softdel = [essays |-> {}, kaoyan_records |-> {}]
    /\ purged = [essays |-> {}, kaoyan_records |-> {}]
    /\ arg \in KaoyanRequests

\* DeepSeekService.correct_kaoyan_essay up to the prompt.
DeepSeekCorrectKaoyanEssay ==
    LET normalized_exam_type == DeepSeekService_normalize_exam_type(arg.exam_type)
        normalized_paper_type == DeepSeekService_normalize_paper_type(arg.paper_type)
        max_score == DeepSeekService_get_max_score(normalized_exam_type, normalized_paper_type)
    IN  /\ ret' = Configuration("DeepSeekService.correct_kaoyan_essay",
                                normalized_exam_type, normalized_paper_type, max_score)
        /\ UNCHANGED <<essays, kaoyan_records, sqlite_sequence, calls, softdel, purged, arg>>

\* GeminiService.correct_kaoyan_essay up to the prompt.
GeminiCorrectKaoyanEssay ==
    LET normalized_exam_type == GeminiService_normalize_exam_type(arg.exam_type)
        normalized_paper_type == GeminiService_normalize_paper_type(arg.paper_type)
        max_score == GeminiService_get_max_score(normalized_exam_type, normalized_paper_type)
    IN  /\ ret' = Configuration("GeminiService.correct_kaoyan_essay",
                                normalized_exam_type, normalized_paper_type, max_score)
        /\ UNCHANGED <<essays, kaoyan_records, sqlite_sequence, calls, softdel, purged, arg>>

\* The view page of a record stored with the two values of the request.
KaoyanView ==
    LET exam_type == OrEmpty(arg.exam_type)
        paper_type == OrEmpty(arg.paper_type)
    IN  /\ ret' = Configuration("kaoyan_view", exam_type, paper_type,
                                kaoyan_view_max_score(exam_type, paper_type))
        /\ UNCHANGED <<essays, kaoyan_records, sqlite_sequence, calls, softdel, purged, arg>>

NextRequest ==
    \/ DeepSeekCorrectKaoyanEssay
    \/ GeminiCorrectKaoyanEssay
    \/ KaoyanView

SpecRequest == InitRequest /\ [][NextRequest]_vars

-----------------------------------------------------------------------------
(* Properties of the normalisation.                                        *)

\* The last call was the normalisation of the request by one of the services.
Normalizing ==
    ret.op \in {"DeepSeekService.correct_kaoyan_essay", "GeminiService.correct_kaoyan_essay"}

\* The text of an argument contains one of the needles, in any case of
\* its letters.
Mentions(x, needles) == \E needle \in needles : Contains(py_lower(OrEmpty(x)), needle)

MentionsOne(x) == Mentions(x, {<<"U4E00">>, <<"1">>})

MentionsTwo(x) == Mentions(x, {<<"U4E8C">>, <<"2">>})

\* C16 as stated: a text containing the Chinese one or "1" gives English I,
\* a text containing the Chinese two or "2" gives English II, anything
\* else gives English I, except that the canonical English II maps to
\* itself.
C16_OneOrTwo ==
    Normalizing =>
        /\ ret.exam_type \in {ENGLISH_I, ENGLISH_II}
        /\ MentionsOne(arg.exam_type) => ret.exam_type = ENGLISH_I
        /\ MentionsTwo(arg.exam_type) => ret.exam_type = ENGLISH_II
        /\ (~MentionsOne(arg.exam_type) /\ ~MentionsTwo(arg.exam_type)
               /\ arg.exam_type # <<ENGLISH_II>>)
           => ret.exam_type = ENGLISH_I

\* C16 as amended: the result is English I or English II, decided by the
\* first test that applies: the text contains the Chinese one or "1":
\* English I; it contains the Chinese two or "2": English II; it contains
\* "english ii" in any case of its letters: English II; anything else,
\* None and the empty text included: English I.
C16_FirstTestDecides ==
    Normalizing =>
        /\ ret.exam_type \in {ENGLISH_I, ENGLISH_II}
        /\ ret.exam_type =
               IF MentionsOne(arg.exam_type) THEN ENGLISH_I
               ELSE IF MentionsTwo(arg.exam_type) THEN ENGLISH_II
               ELSE IF Mentions(arg.exam_type, {<<"e", "n", "g", "l", "i", "s", "h", " ", "i", "i">>}) THEN ENGLISH_II
               ELSE ENGLISH_I
        /\ arg.exam_type \in {<<ENGLISH_I>>, <<ENGLISH_II>>} => ret.exam_type = arg.exam_type[1]
        /\ arg.exam_type = <<<<"U82F1", "U8BED", "U4E8C">>>> => ret.exam_type = ENGLISH_II

\* The Chinese name of English II after a "1": English I.
C16_Witness ==
    /\ ret.op = "GeminiService.correct_kaoyan_essay"
    /\ arg.exam_type = <<<<"1">> \o <<"U82F1", "U8BED", "U4E8C">>>>
    /\ ret.exam_type = ENGLISH_I

\* The max score of a normalised pair.
MaxScoreTable(exam_type, paper_type) ==
    CASE exam_type = ENGLISH_I /\ paper_type = SMALL_ESSAY -> 10
      [] exam_type = ENGLISH_I /\ paper_type = LARGE_ESSAY -> 20
      [] exam_type = ENGLISH_II /\ paper_type = SMALL_ESSAY -> 10
      [] exam_type = ENGLISH_II /\ paper_type = LARGE_ESSAY -> 15

\* C17: a paper type text containing "small" (in any case of its letters)
\* or the Chinese small gives small_essay and every other text, None
\* included, large_essay; the max score is that of the normalised pair:
\* English I 10 / 20, English II 10 / 15, in both services and on the view
\* page; the Chinese names of English II and of the large essay give
\* English II, large_essay, 15.
C17_PaperTypeAndMaxScore ==
    /\ Normalizing =>
           /\ ret.paper_type =
                  IF Mentions(arg.paper_type, {<<"s", "m", "a", "l", "l">>, <<"U5C0F">>})
                  THEN SMALL_ESSAY ELSE LARGE_ESSAY
           /\ ret.max_score = MaxScoreTable(ret.exam_type, ret.paper_type)
           /\ (arg.exam_type = <<<<"U82F1", "U8BED", "U4E8C">>>>
                  /\ arg.paper_type = <<<<"U5927", "U4F5C", "U6587">>>>)
              => /\ ret.exam_type = ENGLISH_II
                 /\ ret.paper_type = LARGE_ESSAY
                 /\ ret.max_score = 15
    /\ (ret.op = "kaoyan_view" /\ ret.exam_type \in {ENGLISH_I, ENGLISH_II}
           /\ ret.paper_type \in {SMALL_ESSAY, LARGE_ESSAY})
       => ret.max_score = MaxScoreTable(ret.exam_type, ret.paper_type)

\* The end-to-end scenario in the DeepSeek service.
C17_Witness ==
    /\ ret.op = "DeepSeekService.correct_kaoyan_essay"
    /\ arg.exam_type = <<<<"U82F1", "U8BED", "U4E8C">>>>
    /\ arg.paper_type = <<<<"U5927", "U4F5C", "U6587">>>>
    /\ ret.exam_type = ENGLISH_II /\ ret.paper_type = LARGE_ESSAY /\ ret.max_score = 15

-----------------------------------------------------------------------------
(* The grading services: _parse_response, which turns the text a provider  *)
(* returned into the result of the call.  The text is a sequence of the    *)
(* characters of the JSON model and BACKTICK.  A call gives                *)
(* [ok, err, val]: the value returned, or ok = FALSE and the exception     *)
(* that left the function.                                                 *)

Responded(v) == [ok |-> TRUE, err |-> "", val |-> v]

Failed(exception) == [ok |-> FALSE, err |-> exception, val |-> JNull]

\* The marker of a markdown code fence.
FENCE == <<"BACKTICK", "BACKTICK", "BACKTICK">>

\* text.startswith(prefix)
StartsWith(text, prefix) ==
    Len(text) >= Len(prefix) /\ SubSeq(text, 1, Len(prefix)) = prefix

\* text.find(c): the 0-based index of the first c, -1 when there is none.
py_find(text, c) ==
    IF \E i \in 1..Len(text) : text[i] = c
    THEN (CHOOSE i \in 1..Len(text) : text[i] = c /\ \A j \in 1..(i - 1) : text[j] # c) - 1
    ELSE -1

\* text.rfind(c): the 0-based index of the last c, -1 when there is none.
py_rfind(text, c) ==
    IF \E i \in 1..Len(text) : text[i] = c
    THEN (CHOOSE i \in 1..Len(text) : text[i] = c /\ \A j \in (i + 1)..Len(text) : text[j] # c) - 1
    ELSE -1

\* text[start:end] for indices that are not negative
py_slice(text, start, end) == SubSeq(text, start + 1, IF end > Len(text) THEN Len(text) ELSE end)

RECURSIVE py_split(_, _)
\* text.split(sep): the pieces between the separators, at least one piece.
py_split(text, sep) ==
    LET i == py_find(text, sep)
    IN  IF i = -1 THEN <<text>>
        ELSE <<SubSeq(text, 1, i)>> \o py_split(SubSeq(text, i + 2, Len(text)), sep)

RECURSIVE py_join(_, _)
\* sep.join(lines)
py_join(lines, sep) ==
    IF lines = <<>> THEN <<>>
    ELSE IF Len(lines) = 1 THEN lines[1]
    ELSE lines[1] \o <<sep>> \o py_join(Tail(lines), sep)

\* {"error": message, "raw_text": raw}
ParseFailure(message, raw) ==
    JDict(<<<<"error">>, <<"raw_text">>>>, <<JStr(<<message>>), JStr(raw)>>)

\* The try block both services end with: the text as JSON, else the text
\* from its first "{" to its last "}" as JSON, else the parse failure.
loads_or_brace_scan(raw, message) ==
    LET whole == json_loads(raw)
        start == py_find(raw, "{")
        end == py_rfind(raw, "}")
        inner == json_loads(py_slice(raw, start, end + 1))
    IN  IF whole.ok THEN Responded(whole.val)
        ELSE IF start # -1 /\ end # -1 /\ inner.ok THEN Responded(inner.val)
        ELSE Responded(ParseFailure(message, raw))

\* Mutant: two lines dropped at the opening fence.
DeepSeekService_parse_response_drops_two_lines(text) ==
    LET stripped == py_strip(text)
        lines == py_split(stripped, "NL")
        rest == IF StartsWith(lines[1], FENCE) THEN SubSeq(lines, 3, Len(lines)) ELSE lines
        body == IF rest # <<>> /\ StartsWith(rest[Len(rest)], FENCE)
                THEN SubSeq(rest, 1, Len(rest) - 1)
                ELSE rest
        raw == IF StartsWith(stripped, FENCE) THEN py_join(body, "NL") ELSE stripped
    IN  loads_or_brace_scan(raw, "Failed to parse JSON response from DeepSeek")

\* Mutant: no scan for the first and last brace.
DeepSeekService_parse_response_without_brace_scan(text) ==
    LET stripped == py_strip(text)
        lines == py_split(stripped, "NL")
        rest == IF StartsWith(lines[1], FENCE) THEN Tail(lines) ELSE lines
        body == IF rest # <<>> /\ StartsWith(rest[Len(rest)], FENCE)
                THEN SubSeq(rest, 1, Len(rest) - 1)
                ELSE rest
        raw == IF StartsWith(stripped, FENCE) THEN py_join(body, "NL") ELSE stripped
    IN  IF json_loads(raw).ok THEN Responded(json_loads(raw).val)
        ELSE Responded(ParseFailure("Failed to parse JSON response from DeepSeek", raw))

\* DeepSeekService._parse_response
DeepSeekService_parse_response(text) ==
    LET stripped == py_strip(text)
        lines == py_split(stripped, "NL")
        rest == IF StartsWith(lines[1], FENCE) THEN Tail(lines) ELSE lines
        body == IF rest # <<>> /\ StartsWith(rest[Len(rest)], FENCE)
                THEN SubSeq(rest, 1, Len(rest) - 1)
                ELSE rest
        raw == IF StartsWith(stripped, FENCE) THEN py_join(body, "NL") ELSE stripped
    IN  loads_or_brace_scan(raw, "Failed to parse JSON response from DeepSeek")

\* GeminiService._parse_response: lines[-1] is read whether or not a line
\* is left, and raises IndexError when none is.
GeminiService_parse_response(text) ==
    LET stripped == py_strip(text)
        lines == py_split(stripped, "NL")
        rest == IF StartsWith(lines[1], FENCE) THEN Tail(lines) ELSE lines
        body == IF StartsWith(rest[Len(rest)], FENCE)
                THEN SubSeq(rest, 1, Len(rest) - 1)
                ELSE rest
        raw == IF StartsWith(stripped, FENCE) THEN py_join(body, "NL") ELSE stripped
    IN  IF StartsWith(stripped, FENCE) /\ rest = <<>> THEN Failed("IndexError")
        ELSE loads_or_brace_scan(raw, "Failed to parse JSON response")

-----------------------------------------------------------------------------
(* The response specification: one provider text is parsed by either       *)
(* service.  A provider text is [text, shape, object]: the text, how it    *)
(* was put together, and the JSON object it was put together around.       *)

\* {"a": 1}
SmallObject == JDict(<<<<"a">>>>, <<JInt(1)>>)

\* {"text": "} BACKTICK BACKTICK BACKTICK {", "n": [1, 2.5]}
BracesInStringObject ==
    JDict(<<<<"text">>, <<"n">>>>,
          <<JStr(<<"}", " ", "BACKTICK", "BACKTICK", "BACKTICK", " ", "{">>),
            JList(<<JInt(1), JFloat(25)>>)>>)

ResponseObjects == {SmallObject, JDict(<<>>, <<>>), KaoyanAnalysisB, BracesInStringObject}

\* An object on one line, and with a line break after its first and before
\* its last brace.
OneLine(object) == json_dumps(object, FALSE)

ManyLines(object) ==
    LET line == json_dumps(object, FALSE)
    IN  <<"{", "NL">> \o SubSeq(line, 2, Len(line) - 1) \o <<"NL", "}">>

\* The text of an object in one of the two layouts.
ObjectText(object, many) == IF many THEN ManyLines(object) ELSE OneLine(object)

\* What a provider writes on the line that opens a fence.
FenceOpenings == {FENCE, FENCE \o <<"json">>, FENCE \o <<"json", " ">>}

\* Whitespace before and after a response.
Margins == {<<>>, <<" ">>, <<"NL">>, <<"NL", " ">>}

\* A provider text: the text, its shape, the object in it, and the free
\* text put before and after the object.
ProviderText(text, shape, object, before, after) ==
    [text |-> text, shape |-> shape, object |-> object, before |-> before, after |-> after]

\* The object in a code fence: an opening line, the object, a closing
\* line, whitespace around the whole and blank lines around the object.
FencedTexts ==
    {ProviderText(before \o opening \o <<"NL">> \o blank \o ObjectText(object, many)
                      \o blank \o <<"NL">> \o FENCE \o after,
                  "fenced", object, <<>>, <<>>) :
        object \in ResponseObjects, many \in BOOLEAN,
        opening \in FenceOpenings, before \in Margins, after \in Margins,
        blank \in {<<>>, <<"NL">>}}

\* Free text a provider puts before an object.
ProseBefore ==
    {<<>>, <<"Here", " ", "it", " ", "is", ":", " ">>, <<"Result", ":", "NL">>,
     <<"note", " ", "{", "x", "}", " ">>, <<"[">>, <<"QUOTE">>,
     FENCE \o <<"json", " ">>}

\* Free text a provider puts after an object.
ProseAfter ==
    {<<>>, <<" ", "Hope", " ", "this", " ", "helps", "!">>, <<"NL", "Done", ".">>,
     <<" ", "(", "see", " ", "}", ")">>, <<"]">>, <<"QUOTE">>}

\* The object with free text before it, after it or both.
ProseTexts ==
    {ProviderText(before \o ObjectText(object, many) \o after, "prose", object,
                  before, after) :
        object \in ResponseObjects, many \in BOOLEAN,
        before \in ProseBefore, after \in ProseAfter}

\* Texts with no JSON in them: prose, a cut-off object, a fence around
\* prose, a fence alone, nothing.
MalformedTexts ==
    {<<"no", " ", "json", " ", "here">>,
     <<" ", "no", " ", "json", " ", "here", " ", "NL">>,
     <<"{", "QUOTE", "a", "QUOTE", ":", " ">>,
     <<"{", "not", "}", " ", "json">>,
     <<"}", " ", "{">>,
     FENCE \o <<"json", "NL", "not", " ", "json", "NL">> \o FENCE,
     FENCE \o <<"NL">> \o FENCE,
     FENCE,
     FENCE \o <<"json">>,
     FENCE \o <<"{", "QUOTE", "a", "QUOTE", ":", " ", "1", "}">>,
     <<" ", "NL">>}

ProviderTexts ==
    FencedTexts \cup ProseTexts
        \cup {ProviderText(text, "malformed", JNull, <<>>, <<>>) : text \in MalformedTexts}

\* What a call of _parse_response gave.
Parsed(op, result) == [op |-> op, result |-> result]

InitResponse ==
    /\ essays = <<>>
    /\ kaoyan_records = <<>>
    /\ sqlite_sequence = [essays |-> 0, kaoyan_records |-> 0]
    /\ ret = Parsed("init_db", Responded(JNull))
    /\ calls = [essays |-> <<>>, kaoyan_records |-> <<>>]
    /\ softdel = [essays |-> {}, kaoyan_records |-> {}]
    /\ purged = [essays |-> {}, kaoyan_records |-> {}]
    /\ arg \in ProviderTexts

DeepSeekParseResponse ==
    /\ ret' = Parsed("DeepSeekService._parse_response", DeepSeekService_parse_response(arg.text))
    /\ UNCHANGED <<essays, kaoyan_records, sqlite_sequence, calls, softdel, purged, arg>>

GeminiParseResponse ==
    /\ ret' = Parsed("GeminiService._parse_response", GeminiService_parse_response(arg.text))
    /\ UNCHANGED <<essays, kaoyan_records, sqlite_sequence, calls, softdel, purged, arg>>

NextResponse ==
    \/ DeepSeekParseResponse
    \/ GeminiParseResponse

SpecResponse == InitResponse /\ [][NextResponse]_vars

-----------------------------------------------------------------------------
(* Properties of _parse_response.                                          *)

Parsing == ret.op \in {"DeepSeekService._parse_response", "GeminiService._parse_response"}

\* The result is the parse-failure error object.
IsParseFailure(result) ==
    /\ result.ok
    /\ result.val.t = "dict"
    /\ result.val.keys = <<<<"error">>, <<"raw_text">>>>

\* The call returned the object the text was put together around.
ReturnsObject == ret.result = Responded(arg.object)

\* C18 as stated: a call that finds no JSON in the provider text returns
\* an error object whose raw_text is the full provider text: the call
\* never raises, and the raw_text of a parse failure is the text passed in.
C18_RawTextIsOriginal ==
    Parsing =>
        /\ ret.result.ok
        /\ IsParseFailure(ret.result)
               => DictGet(ret.result.val, <<"raw_text">>, JNull) = JStr(arg.text)
        /\ arg.shape = "malformed" => IsParseFailure(ret.result)

\* C19: a JSON object in a markdown code fence (an opening line of the
\* fence marker with or without "json", the object on one or several
\* lines, a closing line, whitespace around the whole) parses to exactly
\* that object, in both services.
C19_FencedObject ==
    (Parsing /\ arg.shape = "fenced") => ReturnsObject

\* A fence opened with the marker and "json", around an object of several
\* lines with a non-ASCII string, after a line break.
C19_Witness ==
    /\ ret.op = "GeminiService._parse_response"
    /\ arg.shape = "fenced"
    /\ arg.object = KaoyanAnalysisB
    /\ StartsWith(arg.text, <<"NL">> \o FENCE \o <<"json", "NL", "{", "NL">>)
    /\ ret.result = Responded(KaoyanAnalysisB)

\* C20 as stated: a JSON object with any free text before it, after it or
\* both parses to exactly that object.
C20_AnyProse ==
    (Parsing /\ arg.shape = "prose") => ReturnsObject

\* The free text around the object is only whitespace.
BareObject == py_strip(arg.before) = <<>> /\ py_strip(arg.after) = <<>>

\* C20 as amended: a JSON object with free text before it that has no "{"
\* and free text after it that has no "}" parses to exactly that object,
\* provided the whole text does not begin with a fence marker and is not
\* itself a JSON document of another value.
C20_ProseWithoutBraces ==
    (Parsing /\ arg.shape = "prose"
        /\ ~Contains(arg.before, <<"{">>)
        /\ ~Contains(arg.after, <<"}">>)
        /\ ~StartsWith(py_strip(arg.text), FENCE)
        /\ (json_loads(arg.text).ok => BareObject))
    => ReturnsObject

\* An object with braces in a string, a sentence before it and a sentence
\* after it.
C20_Witness ==
    /\ ret.op = "DeepSeekService._parse_response"
    /\ arg.shape = "prose"
    /\ arg.object = BracesInStringObject
    /\ arg.before = <<"Here", " ", "it", " ", "is", ":", " ">>
    /\ arg.after = <<" ", "Hope", " ", "this", " ", "helps", "!">>
    /\ ret.result = Responded(BracesInStringObject)

\* Two results a caller cannot tell apart: the same parsed payload, or the
\* parse-failure error object with the same raw_text.
SameOutcome(a, b) ==
    \/ /\ a.ok /\ b.ok
       /\ ~IsParseFailure(a) /\ ~IsParseFailure(b)
       /\ a.val = b.val
    \/ /\ IsParseFailure(a) /\ IsParseFailure(b)
       /\ DictGet(a.val, <<"raw_text">>, JNull) = DictGet(b.val, <<"raw_text">>, JNull)

\* C21 as stated: the two services are interchangeable on every provider
\* text: what GeminiService._parse_response gave is the same payload, or
\* an error object with the same raw_text, as what
\* DeepSeekService._parse_response gives for that text.
C21_SameOutcome ==
    ret.op = "GeminiService._parse_response"
        => SameOutcome(ret.result, DeepSeekService_parse_response(arg.text))

-----------------------------------------------------------------------------
(* The database file specification.  The script runs init_db at the start  *)
(* of every rerun, on whatever file is there: no tables yet, the essays    *)
(* table only (a file of the version before the Kaoyan mode), or both      *)
(* tables with the rows earlier runs left.  arg is the set of tables the   *)
(* file has.                                                               *)

TableNames == {"essays", "kaoyan_records"}

\* The tables a database file may have when the script starts.
Schemas == {{}, {"essays"}, TableNames}

\* Mutant: the table is dropped and created again.
create_table_anew(schema, name, tbl, seq) == [rows |-> <<>>, seq |-> 0]

\* CREATE TABLE IF NOT EXISTS name: a table that exists keeps its rows and
\* its AUTOINCREMENT counter, a missing one is created empty.
create_table_if_not_exists(schema, name, tbl, seq) ==
    IF name \in schema THEN [rows |-> tbl, seq |-> seq] ELSE [rows |-> <<>>, seq |-> 0]

\* init_db: both statements and the commit.
InitDb ==
    LET e == create_table_if_not_exists(arg, "essays", essays, sqlite_sequence.essays)
        k == create_table_if_not_exists(arg, "kaoyan_records", kaoyan_records,
                                        sqlite_sequence.kaoyan_records)
    IN  /\ essays' = e.rows
        /\ kaoyan_records' = k.rows
        /\ sqlite_sequence' = [essays |-> e.seq, kaoyan_records |-> k.seq]
        /\ arg' = TableNames
        /\ ret' = Ret("init_db", 0, FALSE, <<>>, <<>>)
        /\ UNCHANGED <<calls, softdel, purged>>

\* The kinds of rows in the file: written by create, or soft-deleted since.
FileKinds == {"parsable", "deleted"}

InitFile ==
    \E schema \in Schemas, n \in 0..MaxStored :
        \E kind \in [1..n -> FileKinds] :
            LET time == [k \in 1..n |-> <<9, k>>]
                deleted == {k \in 1..n : kind[k] = "deleted"}
                has(name) == name \in schema
            IN  /\ essays = IF has("essays") THEN StoredEssays(n, kind, time) ELSE <<>>
                /\ kaoyan_records = IF has("kaoyan_records")
                                    THEN StoredKaoyanRecords(n, kind, time)
                                    ELSE <<>>
                /\ sqlite_sequence = [essays |-> IF has("essays") THEN n ELSE 0,
                                      kaoyan_records |->
                                          IF has("kaoyan_records") THEN n ELSE 0]
                /\ ret = Ret("start", 0, FALSE, <<>>, <<>>)
                /\ calls = [essays |-> <<>>, kaoyan_records |-> <<>>]
                /\ softdel = [essays |-> IF has("essays") THEN deleted ELSE {},
                              kaoyan_records |->
                                  IF has("kaoyan_records") THEN deleted ELSE {}]
                /\ purged = [essays |-> {}, kaoyan_records |-> {}]
                /\ arg = schema

\* init_db has run: the pages below it in the script can.
TablesPresent == arg = TableNames

NextFile ==
    \/ InitDb
    \/ /\ TablesPresent
       /\ CreateEssay("Education", "essay two", "Task 1", EssayAnalysisB, <<10, 0>>)
    \/ /\ TablesPresent
       /\ CreateKaoyanRecord("English II", "small_essay", "Letter", "essay four",
                             KaoyanAnalysisB, <<10, 0>>)
    \/ TablesPresent /\ \E id \in Ids : GetEssay(id)
    \/ TablesPresent /\ \E id \in Ids : GetKaoyanRecord(id)
    \/ TablesPresent /\ GetActiveEssays
    \/ TablesPresent /\ GetActiveKaoyanRecords
    \/ TablesPresent /\ GetTrajectoryData
    \/ TablesPresent /\ GetKaoyanTrajectoryData
    \/ TablesPresent /\ \E id \in Ids, soft \in BOOLEAN : DeleteEssay(id, soft)
    \/ TablesPresent /\ \E id \in Ids, soft \in BOOLEAN : DeleteKaoyanRecord(id, soft)

SpecFile == InitFile /\ [][NextFile]_vars

-----------------------------------------------------------------------------
(* Properties of the store over the database file.                         *)

\* The calls that only read.
ReadOps ==
    {"get_essay", "get_kaoyan_record", "get_active_essays", "get_active_kaoyan_records",
     "get_trajectory_data", "get_trajectory_data: AttributeError",
     "get_kaoyan_trajectory_data", "get_kaoyan_trajectory_data: AttributeError"}

\* C26: get_essay, get_active_essays, get_trajectory_data and their Kaoyan
\* counterparts leave both tables as they were: the same rows, every
\* column of every row the same, whether the call returns or raises.
C26_ReadsLeaveTables ==
    [][ret'.op \in ReadOps
           => /\ essays' = essays
              /\ kaoyan_records' = kaoyan_records
              /\ sqlite_sequence' = sqlite_sequence]_vars

\* The extractor has reported the active rows of a table that also holds a
\* soft-deleted row, and that row is still there.
C26_Witness ==
    /\ ret.op = "get_trajectory_data"
    /\ Len(ret.rows) >= 1
    /\ \E id \in DOMAIN essays : essays[id].status = DELETED

\* C27: init_db run on a file that has a table leaves every row of that
\* table and its id counter as they were; with both tables there the
\* whole store is unchanged.
C27_InitDbIdempotent ==
    [][ret'.op = "init_db"
           => /\ "essays" \in arg
                  => essays' = essays /\ sqlite_sequence'.essays = sqlite_sequence.essays
              /\ "kaoyan_records" \in arg
                  => /\ kaoyan_records' = kaoyan_records
                     /\ sqlite_sequence'.kaoyan_records = sqlite_sequence.kaoyan_records]_vars

\* init_db has run again after a create of this run, over a file that held
\* a row before the run: the rows and the counter are there.
C27_Witness ==
    /\ ret.op = "init_db"
    /\ calls.essays # <<>>
    /\ Cardinality(DOMAIN essays) >= 2
    /\ sqlite_sequence.essays >= 2
    /\ \E id \in DOMAIN essays : essays[id].created_at = isoformat(<<9, 1>>)

\* The rows of tbl other than id are in after, unchanged, and after has no
\* other row.
OthersUnchanged(tbl, after, id) ==
    /\ DOMAIN after \subseteq DOMAIN tbl
    /\ \A k \in DOMAIN tbl \ {id} : k \in DOMAIN after /\ after[k] = tbl[k]

\* C29: delete_essay(id) and delete_kaoyan_record(id), soft or hard, change
\* at most the row with that id in their own table: every other row of the
\* table and the whole other table (the row with the same id there too)
\* are unchanged, and a delete of an id the table does not hold returns
\* like any other and changes nothing.
C29_DeleteFrame ==
    [][/\ ret'.op = "delete_essay"
           => /\ OthersUnchanged(essays, essays', ret'.id)
              /\ kaoyan_records' = kaoyan_records
              /\ sqlite_sequence' = sqlite_sequence
              /\ ret'.id \notin DOMAIN essays => essays' = essays
       /\ ret'.op = "delete_kaoyan_record"
           => /\ OthersUnchanged(kaoyan_records, kaoyan_records', ret'.id)
              /\ essays' = essays
              /\ sqlite_sequence' = sqlite_sequence
              /\ ret'.id \notin DOMAIN kaoyan_records => kaoyan_records' = kaoyan_records]_vars

\* An essay was hard-deleted while another essay and the Kaoyan record
\* with the same id were there: both are still there and active.
C29_Witness ==
    /\ ret.op = "delete_essay"
    /\ ~ret.soft
    /\ ret.id \in purged.essays
    /\ DOMAIN essays # {}
    /\ ret.id \in DOMAIN kaoyan_records
    /\ kaoyan_records[ret.id].status = ACTIVE

-----------------------------------------------------------------------------
(* The facade operations of the two services.  A call constructs the       *)
(* client or model, sends the request, reads the text out of the response  *)
(* and parses it.  The provider and the transport are the environment: a   *)
(* call record says at which step, if any, they fail, and what text the    *)
(* provider answers with.                                                  *)

Steps == {"construct", "request", "read"}

\* {"error": message}
ErrorObject(message) == JDict(<<<<"error">>>>, <<JStr(message)>>)

\* correct_kaoyan_essay, correct_ielts_essay, analyze_trajectory and
\* analyze_kaoyan_trajectory of DeepSeekService: the same steps in each.
\* _get_client returns None when the package or the key is missing or the
\* constructor raises; each later step has its own try.
DeepSeekService_facade(call) ==
    IF call.fail = "construct"
    THEN Responded(ErrorObject(<<"DeepSeek client is not available.">>))
    ELSE IF call.fail = "request"
    THEN Responded(ErrorObject(<<"DeepSeek API Error: ", "exc">>))
    ELSE IF call.fail = "read"
    THEN Responded(ErrorObject(<<"Unexpected DeepSeek response structure: ", "exc">>))
    ELSE IF call.text = <<>>
    THEN Responded(ErrorObject(<<"DeepSeek returned empty response.">>))
    ELSE DeepSeekService_parse_response(call.text)

\* What the except clause of the Gemini operations returns.
GeminiApiError(exception) == Responded(ErrorObject(<<"Gemini API Error: ", exception>>))

\* correct_essay and correct_kaoyan_essay of GeminiService: every step,
\* get_model and _parse_response included, is inside one try.
GeminiService_correct(call) ==
    IF call.fail \in Steps
    THEN GeminiApiError("exc")
    ELSE IF call.text = <<>>
    THEN Responded(ErrorObject(<<"Gemini returned empty response.">>))
    ELSE LET parsed == GeminiService_parse_response(call.text)
         IN  IF parsed.ok THEN parsed ELSE GeminiApiError(parsed.err)

\* analyze_trajectory and analyze_kaoyan_trajectory of GeminiService:
\* get_model is called before the try, the request, the read and the
\* parse inside it; the text is not tested for being empty.
GeminiService_analyze(call) ==
    IF call.fail = "construct"
    THEN Failed("Exception")
    ELSE IF call.fail \in {"request", "read"}
    THEN GeminiApiError("exc")
    ELSE LET parsed == GeminiService_parse_response(call.text)
         IN  IF parsed.ok THEN parsed ELSE GeminiApiError(parsed.err)

\* Provider texts that are JSON documents of a value other than an object:
\* [1, 2]   5   "ok"   null   [{"a": 1}]
ValueTexts ==
    {OneLine(JList(<<JInt(1), JInt(2)>>)), OneLine(JInt(5)), OneLine(JStr(<<"ok">>)),
     OneLine(JNull), OneLine(JList(<<SmallObject>>))}

\* The texts a provider answers with.
FacadeTexts == {p.text : p \in ProviderTexts} \cup ValueTexts \cup {<<>>}

FacadeCalls == [fail : Steps \cup {"none"}, text : FacadeTexts]

InitFacade ==
    /\ essays = <<>>
    /\ kaoyan_records = <<>>
    /\ sqlite_sequence = [essays |-> 0, kaoyan_records |-> 0]
    /\ ret = Parsed("init_db", Responded(JNull))
    /\ calls = [essays |-> <<>>, kaoyan_records |-> <<>>]
    /\ softdel = [essays |-> {}, kaoyan_records |-> {}]
    /\ purged = [essays |-> {}, kaoyan_records |-> {}]
    /\ arg \in FacadeCalls

\* One facade call: the operation op with the result the service gives.
Facade(op, result) ==
    /\ ret' = Parsed(op, result)
    /\ UNCHANGED <<essays, kaoyan_records, sqlite_sequence, calls, softdel, purged, arg>>

DeepSeekCorrectIeltsEssay ==
    Facade("DeepSeekService.correct_ielts_essay", DeepSeekService_facade(arg))

DeepSeekCorrectKaoyan ==
    Facade("DeepSeekService.correct_kaoyan_essay", DeepSeekService_facade(arg))

DeepSeekAnalyzeTrajectory ==
    Facade("DeepSeekService.analyze_trajectory", DeepSeekService_facade(arg))

DeepSeekAnalyzeKaoyanTrajectory ==
    Facade("DeepSeekService.analyze_kaoyan_trajectory", DeepSeekService_facade(arg))

GeminiCorrectEssay ==
    Facade("GeminiService.correct_essay", GeminiService_correct(arg))

GeminiCorrectKaoyan ==
    Facade("GeminiService.correct_kaoyan_essay", GeminiService_correct(arg))

GeminiAnalyzeTrajectory ==
    Facade("GeminiService.analyze_trajectory", GeminiService_analyze(arg))

GeminiAnalyzeKaoyanTrajectory ==
    Facade("GeminiService.analyze_kaoyan_trajectory", GeminiService_analyze(arg))

NextFacade ==
    \/ DeepSeekCorrectIeltsEssay
    \/ DeepSeekCorrectKaoyan
    \/ DeepSeekAnalyzeTrajectory
    \/ DeepSeekAnalyzeKaoyanTrajectory
    \/ GeminiCorrectEssay
    \/ GeminiCorrectKaoyan
    \/ GeminiAnalyzeTrajectory
    \/ GeminiAnalyzeKaoyanTrajectory

SpecFacade == InitFacade /\ [][NextFacade]_vars

-----------------------------------------------------------------------------
(* Properties of the facade operations.                                    *)

FacadeOps ==
    {"DeepSeekService.correct_ielts_essay", "DeepSeekService.correct_kaoyan_essay",
     "DeepSeekService.analyze_trajectory", "DeepSeekService.analyze_kaoyan_trajectory",
     "GeminiService.correct_essay", "GeminiService.correct_kaoyan_essay",
     "GeminiService.analyze_trajectory", "GeminiService.analyze_kaoyan_trajectory"}

\* A mapping with an error key.
IsErrorObject(v) == v.t = "dict" /\ \E i \in 1..Len(v.keys) : v.keys[i] = <<"error">>

\* C22 as stated: every facade operation of both services returns, and
\* when the provider or the transport fails at a step of the call
\* (construction, request, reading the response) what it returns is an
\* error object.
C22_FailuresSurfaceAsErrors ==
    ret.op \in FacadeOps
        => /\ ret.result.ok
           /\ arg.fail \in Steps => IsErrorObject(ret.result.val)

\* C23 as stated: for every provider text, what a facade operation hands
\* back is a mapping: a success payload or an error object, never a list,
\* a number, a string or null.
C23_ResultIsMapping ==
    (ret.op \in FacadeOps /\ ret.result.ok) => ret.result.val.t = "dict"

-----------------------------------------------------------------------------
(* The pages of the Streamlit script.  One browser session is followed     *)
(* through its handlers step by step: what page it is on, which ids it     *)
(* holds, whether a connection is open, whether a grading or analysis call *)
(* is in flight.  Every other user of the database file (another browser   *)
(* session, a maintenance tool) is the rest of the world: it writes and    *)
(* reads the same file through connections of its own.  A write is the     *)
(* statement a connection has executed and not yet committed; SQLite shows *)
(* it to no other connection and admits one writer at a time.              *)
(* In this specification arg is [session, other]: the session's state and  *)
(* the write another connection has pending; calls lists the committed     *)
(* creates; softdel and purged are not kept.                               *)

Table(name) == IF name = "essays" THEN essays ELSE kaoyan_records

NewPage(name) == IF name = "essays" THEN "new" ELSE "kaoyan_new"

ViewPage(name) == IF name = "essays" THEN "view" ELSE "kaoyan_view"

AnalysisPage(name) == IF name = "essays" THEN "analysis" ELSE "kaoyan_analysis"

\* The table of the mode a page belongs to: a change of mode puts the
\* session on the new-essay page of the mode, and each sidebar offers the
\* pages of its own mode only.
ModeOf(page) == IF page \in {"new", "view", "analysis"} THEN "essays" ELSE "kaoyan_records"

\* st.session_state.selected_essay_id / selected_kaoyan_id; 0: not set.
Selected(session, name) ==
    IF name = "essays" THEN session.selected_essay_id ELSE session.selected_kaoyan_id

\* Mutant: the handler stores whatever the grading call returned.
error_in_never(result) == "no"

\* "error" in result, as Python evaluates it: a key test on a dict, a
\* member test on a list, a substring test on a str, TypeError otherwise.
error_in(result) ==
    CASE result.t = "dict" -> IF IsErrorObject(result) THEN "yes" ELSE "no"
      [] result.t = "list" ->
             IF \E i \in 1..Len(result.kids) : result.kids[i] = JStr(<<"error">>)
             THEN "yes" ELSE "no"
      [] result.t = "str" -> IF Contains(result.s, <<"error">>) THEN "yes" ELSE "no"
      [] OTHER -> "TypeError"

\* A write a connection has executed: the statement, its table, the id it
\* is about, the row of an INSERT and the arguments of the create call.
Write(table, kind, id, rows, call) ==
    [table |-> table, kind |-> kind, id |-> id, rows |-> rows, call |-> call]

\* The clock reading of the creates of this specification.
SessionNow == <<10, 0>>

\* create_essay up to the INSERT: the row with every column bound.
create_essay_insert(topic, user_content, task_type, ai_analysis) ==
    LET id == autoincrement_rowid(essays, sqlite_sequence.essays)
    IN  Write("essays", "insert", id,
              <<essay_row(id, topic, user_content, task_type,
                          json_dumps(ai_analysis, TRUE), isoformat(SessionNow))>>,
              <<[id |-> id, topic |-> topic, user_content |-> user_content,
                 task_type |-> task_type, ai_analysis |-> ai_analysis]>>)

\* create_kaoyan_record up to the INSERT.
create_kaoyan_record_insert(exam_type, paper_type, topic, user_content, ai_analysis) ==
    LET id == autoincrement_rowid(kaoyan_records, sqlite_sequence.kaoyan_records)
    IN  Write("kaoyan_records", "insert", id,
              <<kaoyan_row(id, exam_type, paper_type, topic, user_content,
                           extract_scores(ai_analysis), json_dumps(ai_analysis, FALSE),
                           isoformat(SessionNow))>>,
              <<[id |-> id, exam_type |-> exam_type, paper_type |-> paper_type,
                 topic |-> topic, user_content |-> user_content,
                 ai_analysis |-> ai_analysis]>>)

\* The INSERT of the create call the handler of the mode makes with result.
HandlerInsert(name, result) ==
    IF name = "essays"
    THEN create_essay_insert("Technology", "essay one", "Task 2", result)
    ELSE create_kaoyan_record_insert("English I", "large_essay", "Chart", "essay three",
                                     result)

\* The table after the write w is committed.
Applied(tbl, w) ==
    CASE w.kind = "insert" -> InsertRow(tbl, w.rows[1])
      [] w.kind = "update" -> delete_statement(tbl, w.id, TRUE)
      [] OTHER -> delete_statement(tbl, w.id, FALSE)

\* Mutant: the connection is in autocommit mode and the INSERT is visible
\* to every connection before the analysis column is written.
ExecutedAutocommit(tbl, w) ==
    IF w.kind = "insert" THEN InsertRow(tbl, [w.rows[1] EXCEPT !.ai_analysis = <<>>]) ELSE tbl

\* The table as other connections see it once w is executed and not yet
\* committed: unchanged.
Executed(tbl, w) == tbl

\* cursor.execute of the write w by one connection.
Executes(w) ==
    /\ essays' = IF w.table = "essays" THEN Executed(essays, w) ELSE essays
    /\ kaoyan_records' = IF w.table = "kaoyan_records"
                         THEN Executed(kaoyan_records, w)
                         ELSE kaoyan_records
    /\ UNCHANGED <<sqlite_sequence, calls, softdel, purged>>

\* conn.commit() of the write w.
Commits(w) ==
    /\ essays' = IF w.table = "essays" THEN Applied(essays, w) ELSE essays
    /\ kaoyan_records' = IF w.table = "kaoyan_records"
                         THEN Applied(kaoyan_records, w)
                         ELSE kaoyan_records
    /\ sqlite_sequence' = IF w.kind = "insert"
                          THEN [sqlite_sequence EXCEPT ![w.table] = w.id]
                          ELSE sqlite_sequence
    /\ calls' = IF w.kind = "insert"
                THEN [calls EXCEPT ![w.table] = Append(@, w.call[1])]
                ELSE calls
    /\ UNCHANGED <<softdel, purged>>

\* What the page shows after a step.
Shown(op, table, rows, result) == [op |-> op, table |-> table, rows |-> rows, result |-> result]

\* A script run that shows nothing this model looks at.
Quiet == Shown("rerun", "essays", <<>>, JNull)

\* No connection holds the write lock.
Unlocked == arg.session.txn = <<>> /\ arg.other = <<>>

\* The results a grading call hands to the handlers: a grading, an error
\* object, a number; to the essay handler a list, to the Kaoyan handler a
\* parse failure and a grading whose text has a lone surrogate.
HandlerResults(name) ==
    IF name = "essays"
    THEN {EssayAnalysisA, ErrorObject(<<"DeepSeek API Error: ", "exc">>), JInt(5),
          JList(<<JInt(1)>>)}
    ELSE {KaoyanAnalysisA, ErrorObject(<<"DeepSeek API Error: ", "exc">>), JInt(5),
          ParseFailure("Failed to parse JSON response", <<"no", " ", "json">>),
          SurrogatePayload}

InitSession ==
    /\ essays = <<>>
    /\ kaoyan_records = <<>>
    /\ sqlite_sequence = [essays |-> 0, kaoyan_records |-> 0]
    /\ ret = Shown("init_db", "essays", <<>>, JNull)
    /\ calls = [essays |-> <<>>, kaoyan_records |-> <<>>]
    /\ softdel = [essays |-> {}, kaoyan_records |-> {}]
    /\ purged = [essays |-> {}, kaoyan_records |-> {}]
    /\ arg = [session |-> [page |-> "new", selected_essay_id |-> 0,
                           selected_kaoyan_id |-> 0, pc |-> "idle", conn |-> FALSE,
                           llm |-> FALSE, result |-> JNull, txn |-> <<>>],
              other |-> <<>>]

\* The session between two script runs, on the page given.
Idle(page) == arg.session.pc = "idle" /\ arg.session.page = page

\* The Mode selectbox: the other mode's new-essay page.
SwitchMode ==
    /\ arg.session.pc = "idle"
    /\ arg' = [arg EXCEPT !.session.page =
                  IF ModeOf(@) = "essays" THEN "kaoyan_new" ELSE "new"]
    /\ ret' = Quiet
    /\ UNCHANGED <<essays, kaoyan_records, sqlite_sequence, calls, softdel, purged>>

\* A history button of the sidebar: the listing is read from the file, the
\* button of a listed record opens its view page.
SelectRecord(name, id) ==
    /\ arg.session.pc = "idle"
    /\ ModeOf(arg.session.page) = name
    /\ id \in DOMAIN Table(name) /\ Table(name)[id].status = ACTIVE
    /\ arg' = [arg EXCEPT !.session.page = ViewPage(name),
                          !.session.selected_essay_id = IF name = "essays" THEN id ELSE @,
                          !.session.selected_kaoyan_id =
                              IF name = "kaoyan_records" THEN id ELSE @]
    /\ ret' = Quiet
    /\ UNCHANGED <<essays, kaoyan_records, sqlite_sequence, calls, softdel, purged>>

\* The Trajectory Analysis button of the sidebar.
OpenAnalysis ==
    /\ arg.session.pc = "idle"
    /\ arg' = [arg EXCEPT !.session.page = AnalysisPage(ModeOf(@))]
    /\ ret' = Quiet
    /\ UNCHANGED <<essays, kaoyan_records, sqlite_sequence, calls, softdel, purged>>

\* The Analyze button of the new-essay page: with the topic or the essay
\* empty an error is shown; otherwise the grading call is made.
AnalyzeClick(name, filled) ==
    /\ Idle(NewPage(name))
    /\ IF filled
       THEN /\ arg' = [arg EXCEPT !.session.pc = "grading", !.session.llm = TRUE]
            /\ ret' = Quiet
       ELSE /\ ret' = Shown("Analyze: empty input", name, <<>>, JNull)
            /\ UNCHANGED arg
    /\ UNCHANGED <<essays, kaoyan_records, sqlite_sequence, calls, softdel, purged>>

\* The grading call returns result: an error is shown for a result with
\* "error" in it and for a result the test raises on; for any other result
\* the connection is opened.
AnalyzeReturn(name, result) ==
    /\ arg.session.pc = "grading" /\ arg.session.page = NewPage(name)
    /\ IF error_in(result) = "no"
       THEN /\ arg' = [arg EXCEPT !.session.pc = "connected", !.session.llm = FALSE,
                                  !.session.conn = TRUE, !.session.result = result]
            /\ ret' = Quiet
       ELSE /\ arg' = [arg EXCEPT !.session.pc = "idle", !.session.llm = FALSE]
            /\ ret' = Shown(IF error_in(result) = "yes"
                            THEN "Analysis Failed" ELSE "An unexpected error occurred",
                            name, <<>>, result)
    /\ UNCHANGED <<essays, kaoyan_records, sqlite_sequence, calls, softdel, purged>>

\* create_essay / create_kaoyan_record up to cursor.execute.  A text that
\* cannot be bound and a database another connection has locked raise: the
\* finally clause closes the connection and the handler shows the error.
CreateExecute(name) ==
    LET w == HandlerInsert(name, arg.session.result)
    IN  /\ arg.session.pc = "connected" /\ arg.session.page = NewPage(name)
        /\ IF Unlocked /\ Encodable(w.rows[1].ai_analysis) /\ CreatesLeft
           THEN /\ Executes(w)
                /\ arg' = [arg EXCEPT !.session.pc = "executed", !.session.txn = <<w>>]
                /\ ret' = Quiet
           ELSE /\ arg' = [arg EXCEPT !.session.pc = "idle", !.session.conn = FALSE,
                                      !.session.result = JNull]
                /\ ret' = Shown("An unexpected error occurred", name, <<>>,
                                arg.session.result)
                /\ UNCHANGED <<essays, kaoyan_records, sqlite_sequence, calls, softdel,
                               purged>>

\* conn.commit(), conn.close(), and the rerun on the view page of the new
\* record.
CreateCommit(name) ==
    LET w == arg.session.txn[1]
    IN  /\ arg.session.pc = "executed" /\ arg.session.page = NewPage(name)
        /\ Commits(w)
        /\ arg' = [arg EXCEPT !.session.pc = "idle", !.session.conn = FALSE,
                              !.session.txn = <<>>, !.session.result = JNull,
                              !.session.page = ViewPage(name),
                              !.session.selected_essay_id =
                                  IF name = "essays" THEN w.id ELSE @,
                              !.session.selected_kaoyan_id =
                                  IF name = "kaoyan_records" THEN w.id ELSE @]
        /\ ret' = Quiet

\* Mutant: the page shows whatever row the id resolves to.
view_page_unfiltered(tbl, id) == SelectById(tbl, id)

\* The row the view page renders: get by the id the session holds, and
\* the test "row and row['status'] == 'active'".  <<>>: not found.
view_page(tbl, id) ==
    LET row == SelectById(tbl, id)
    IN  IF row # <<>> /\ row[1].status = ACTIVE THEN row ELSE <<>>

\* A run of the script on the view page.
RenderView(name) ==
    LET row == view_page(Table(name), Selected(arg.session, name))
    IN  /\ Idle(ViewPage(name))
        /\ Selected(arg.session, name) # 0
        /\ ret' = Shown(IF row # <<>> THEN "Correction Result" ELSE "not found or deleted",
                        name, row, JNull)
        /\ UNCHANGED <<essays, kaoyan_records, sqlite_sequence, calls, softdel, purged, arg>>

\* The Delete button of the view page, shown with a rendered record:
\* delete_essay / delete_kaoyan_record (soft) up to cursor.execute.  On a
\* locked database the call raises and the finally clause closes the
\* connection.
DeleteClick(name) ==
    LET id == Selected(arg.session, name)
    IN  /\ Idle(ViewPage(name))
        /\ view_page(Table(name), id) # <<>>
        /\ IF Unlocked
           THEN /\ Executes(Write(name, "update", id, <<>>, <<>>))
                /\ arg' = [arg EXCEPT !.session.pc = "deleting", !.session.conn = TRUE,
                                      !.session.txn = <<Write(name, "update", id, <<>>, <<>>)>>]
                /\ ret' = Quiet
           ELSE /\ ret' = Shown("OperationalError", name, <<>>, JNull)
                /\ UNCHANGED <<essays, kaoyan_records, sqlite_sequence, calls, softdel,
                               purged, arg>>

\* conn.commit(), conn.close(), and the rerun on the new-essay page.
DeleteCommit(name) ==
    /\ arg.session.pc = "deleting" /\ arg.session.page = ViewPage(name)
    /\ Commits(arg.session.txn[1])
    /\ arg' = [arg EXCEPT !.session.pc = "idle", !.session.conn = FALSE,
                          !.session.txn = <<>>, !.session.page = NewPage(name)]
    /\ ret' = Shown("deleted", name, <<>>, JNull)

\* A run of the script on the analysis page: the connection is opened.
AnalysisOpen(name) ==
    /\ Idle(AnalysisPage(name))
    /\ arg' = [arg EXCEPT !.session.pc = "history", !.session.conn = TRUE]
    /\ ret' = Quiet
    /\ UNCHANGED <<essays, kaoyan_records, sqlite_sequence, calls, softdel, purged>>

\* Mutant: the analysis page keeps its connection for the analysis call.
AnalysisReadKeepingConnection(name, clicked) ==
    /\ arg.session.pc = "history" /\ arg.session.page = AnalysisPage(name)
    /\ arg' = [arg EXCEPT !.session.pc = "analysing", !.session.llm = TRUE]
    /\ ret' = Quiet
    /\ UNCHANGED <<essays, kaoyan_records, sqlite_sequence, calls, softdel, purged>>

\* The history is extracted and the finally clause closes the connection.
\* An extractor that raises ends the run; with fewer than two entries a
\* warning is shown; with the Generate button clicked the analysis call is
\* made.
AnalysisRead(name, clicked) ==
    /\ arg.session.pc = "history" /\ arg.session.page = AnalysisPage(name)
    /\ \E r \in IF name = "essays" THEN get_trajectory_data(essays)
                ELSE get_kaoyan_trajectory_data(kaoyan_records) :
           IF r.ok /\ Len(r.list) >= 2 /\ clicked
           THEN /\ arg' = [arg EXCEPT !.session.pc = "analysing", !.session.conn = FALSE,
                                      !.session.llm = TRUE]
                /\ ret' = Quiet
           ELSE /\ arg' = [arg EXCEPT !.session.pc = "idle", !.session.conn = FALSE]
                /\ ret' = Shown(IF ~r.ok THEN "AttributeError"
                                ELSE IF Len(r.list) < 2 THEN "Not enough data"
                                ELSE "Score Trends",
                                name, <<>>, JNull)
    /\ UNCHANGED <<essays, kaoyan_records, sqlite_sequence, calls, softdel, purged>>

\* The analysis call returns (or raises): the report is kept.
AnalysisReturn(name) ==
    /\ arg.session.pc = "analysing" /\ arg.session.page = AnalysisPage(name)
    /\ arg' = [arg EXCEPT !.session.pc = "idle", !.session.llm = FALSE]
    /\ ret' = Shown("report", name, <<>>, JNull)
    /\ UNCHANGED <<essays, kaoyan_records, sqlite_sequence, calls, softdel, purged>>

\* Another connection executes a write: the INSERT of a create, the UPDATE
\* of a soft delete, the DELETE of a hard delete.
OtherExecute(name, kind, id) ==
    LET w == IF kind = "insert"
             THEN HandlerInsert(name, IF name = "essays" THEN EssayAnalysisA
                                      ELSE KaoyanAnalysisA)
             ELSE Write(name, kind, id, <<>>, <<>>)
    IN  /\ Unlocked
        /\ IF kind = "insert" THEN CreatesLeft ELSE id \in DOMAIN Table(name)
        /\ Executes(w)
        /\ arg' = [arg EXCEPT !.other = <<w>>]
        /\ ret' = Quiet

\* The other connection commits.
OtherCommit ==
    /\ arg.other # <<>>
    /\ Commits(arg.other[1])
    /\ arg' = [arg EXCEPT !.other = <<>>]
    /\ ret' = Quiet

\* Another connection lists the active rows of a table.
OtherRead(name) ==
    /\ \E rows \in SelectActiveOrdered(Table(name)) :
           ret' = Shown("other session: list", name, rows, JNull)
    /\ UNCHANGED <<essays, kaoyan_records, sqlite_sequence, calls, softdel, purged, arg>>

NextSession ==
    \/ SwitchMode
    \/ \E name \in TableNames, id \in Ids : SelectRecord(name, id)
    \/ OpenAnalysis
    \/ \E name \in TableNames, filled \in BOOLEAN : AnalyzeClick(name, filled)
    \/ \E name \in TableNames : \E result \in HandlerResults(name) : AnalyzeReturn(name, result)
    \/ \E name \in TableNames : CreateExecute(name)
    \/ \E name \in TableNames : CreateCommit(name)
    \/ \E name \in TableNames : RenderView(name)
    \/ \E name \in TableNames : DeleteClick(name)
    \/ \E name \in TableNames : DeleteCommit(name)
    \/ \E name \in TableNames : AnalysisOpen(name)
    \/ \E name \in TableNames, clicked \in BOOLEAN : AnalysisRead(name, clicked)
    \/ \E name \in TableNames : AnalysisReturn(name)
    \/ \E name \in TableNames, kind \in {"insert", "update", "delete"}, id \in Ids :
           OtherExecute(name, kind, id)
    \/ OtherCommit
    \/ \E name \in TableNames : OtherRead(name)

SpecSession == InitSession /\ [][NextSession]_vars

-----------------------------------------------------------------------------
(* Properties of the pages.                                                *)

\* The row a committed create call wrote, every column of it.
CreatedRow(name, c) ==
    IF name = "essays"
    THEN essay_row(c.id, c.topic, c.user_content, c.task_type,
                   json_dumps(c.ai_analysis, TRUE), isoformat(SessionNow))
    ELSE kaoyan_row(c.id, c.exam_type, c.paper_type, c.topic, c.user_content,
                    extract_scores(c.ai_analysis), json_dumps(c.ai_analysis, FALSE),
                    isoformat(SessionNow))

\* row is the whole row of a committed create, its status apart.
WholeRow(name, row) ==
    \E i \in 1..Len(calls[name]) :
        [row EXCEPT !.status = ACTIVE] = CreatedRow(name, calls[name][i])

\* The writes executed and not committed.
PendingWrites == {arg.session.txn[i] : i \in 1..Len(arg.session.txn)}
                     \cup {arg.other[i] : i \in 1..Len(arg.other)}

\* C24: with connections creating, deleting and reading concurrently, a
\* create or delete applies wholly or not at all.  Every row of the
\* tables, and so every row a view page or a listing observes, is the
\* whole row of a committed create; an INSERT that is executed and not
\* committed is in no table, a pending soft delete has not changed the
\* status; and a create that raises (a text that cannot be bound, a locked
\* database) leaves the store unchanged.
C24_AtomicWrites ==
    /\ [](/\ \A name \in TableNames : \A id \in DOMAIN Table(name) :
                 WholeRow(name, Table(name)[id])
          /\ \A i \in 1..Len(ret.rows) : WholeRow(ret.table, ret.rows[i])
          /\ \A w \in PendingWrites :
                 /\ w.kind = "insert" => w.id \notin DOMAIN Table(w.table)
                 /\ (w.kind = "update" /\ w \in {arg.session.txn[i] : i \in 1..Len(arg.session.txn)})
                        => Table(w.table)[w.id].status = ACTIVE)
    /\ [][ret'.op \in {"An unexpected error occurred", "OperationalError"}
              => /\ essays' = essays
                 /\ kaoyan_records' = kaoyan_records
                 /\ sqlite_sequence' = sqlite_sequence]_vars

\* Another connection lists a table while the session's INSERT into it is
\* executed and not committed: it sees the committed rows only.
C24_Witness ==
    /\ ret.op = "other session: list"
    /\ arg.session.txn # <<>>
    /\ arg.session.txn[1].kind = "insert"
    /\ arg.session.txn[1].table = ret.table
    /\ Len(ret.rows) >= 1

\* C25: no connection is open and no write is pending while a grading or
\* analysis call of the session is in flight.
C25_NoConnectionAcrossLlmCall ==
    arg.session.llm => /\ ~arg.session.conn
                       /\ arg.session.txn = <<>>
                       /\ arg.session.pc \in {"grading", "analysing"}

\* The analysis call is in flight, after the history of two essays was
\* read over a connection that is closed again.
C25_Witness ==
    /\ arg.session.pc = "analysing"
    /\ arg.session.llm
    /\ ~arg.session.conn
    /\ Cardinality({id \in DOMAIN essays : essays[id].status = ACTIVE}) >= 2

\* C28: a record is persisted only for a successful grading.  No committed
\* create has an analysis with a top-level error key, the handler goes on
\* to the store only with a result that has no "error" in it; a step that
\* shows a failed grading or rejects an empty input changes no table and
\* not the page, and the rejected input starts no grading call.
C28_OnlySuccessPersisted ==
    /\ [](/\ \A name \in TableNames : \A i \in 1..Len(calls[name]) :
                 ~IsErrorObject(calls[name][i].ai_analysis)
          /\ \A name \in TableNames : \A id \in DOMAIN Table(name) :
                 LET stored == json_loads(Table(name)[id].ai_analysis)
                 IN  stored.ok => ~IsErrorObject(stored.val)
          /\ arg.session.pc \in {"connected", "executed"}
                 => ~IsErrorObject(arg.session.result))
    /\ [][ret'.op \in {"Analysis Failed", "Analyze: empty input"}
              => /\ essays' = essays
                 /\ kaoyan_records' = kaoyan_records
                 /\ arg'.session.page = arg.session.page
                 /\ ~arg'.session.llm
                 /\ ~arg'.session.conn]_vars

\* A grading of the Kaoyan handler failed after an earlier one was stored:
\* the session is still on the new-essay page and the table has the one
\* record.
C28_Witness ==
    /\ ret.op = "Analysis Failed"
    /\ ret.table = "kaoyan_records"
    /\ arg.session.page = "kaoyan_new"
    /\ Len(calls.kaoyan_records) = 1
    /\ DOMAIN kaoyan_records = {1}

\* C30: a view page renders a record only when the id the session holds
\* resolves, at that run of the script, to a row whose status is active; a
\* record soft-deleted or hard-deleted by the session or by another
\* connection gets the not-found message.  After the session's own delete
\* the record is deleted and the session is on the new-essay page of the
\* same mode.
C30_RendersActiveOnly ==
    /\ ret.op = "Correction Result"
           => /\ Len(ret.rows) = 1
              /\ ret.rows[1].id = Selected(arg.session, ret.table)
              /\ ret.rows[1].id \in DOMAIN Table(ret.table)
              /\ Table(ret.table)[ret.rows[1].id] = ret.rows[1]
              /\ ret.rows[1].status = ACTIVE
    /\ ret.op = "not found or deleted"
           => LET id == Selected(arg.session, ret.table)
              IN  id \in DOMAIN Table(ret.table) => Table(ret.table)[id].status = DELETED
    /\ ret.op = "deleted"
           => /\ arg.session.page = NewPage(ret.table)
              /\ LET id == Selected(arg.session, ret.table)
                 IN  id \in DOMAIN Table(ret.table) /\ Table(ret.table)[id].status = DELETED

\* The session holds the id of an essay another connection has hard-
\* deleted: its view page shows the not-found message.
C30_Witness ==
    /\ ret.op = "not found or deleted"
    /\ ret.table = "essays"
    /\ arg.session.selected_essay_id = 1
    /\ 1 \notin DOMAIN essays
    /\ sqlite_sequence.essays >= 1

====
